---- MODULE Spec2Model ----
(***************************************************************************)
(* Geometry / descriptor engine of the symmetry-function potential code:   *)
(* periodic box, element map, neighbor list and the ASF descriptor.        *)
(*                                                                         *)
(* Conventions of the model                                                *)
(*  - Python None is the empty tuple <<>>; an optional number or dict v is  *)
(*    <<v>> (an empty dict is <<[e \in {} |-> 0]>>, distinct from None).   *)
(*  - Lengths are integers; a distance d is carried as its square d2, and  *)
(*    the comparison d <= r is LeqDist(d2, r), d = 0 is d2 = 0.            *)
(*  - Atom ids are 1..N (the code counts from 0); the order is the same.   *)
(*  - A sum of kernel values is carried as the bag of the kernel's         *)
(*    arguments: two sums over equal bags are equal.                       *)
(***************************************************************************)
EXTENDS Integers, Sequences, FiniteSets, Bags, TLC

VARIABLES
  \* Box._apply_pbc called as a kernel
  dx, pbc_out,
  \* ElementMap
  unique_elements, _elem_to_atomic_num, _elem_to_atom_type, _atom_type_to_elem,
  lookup_out,
  \* Structure (+ Box, Neighbor)
  lattice, position, atype, r_cutoff, masks, requires_neighbor_update,
  \* AtomicSymmetryFunction
  element, _radial, _angular, result, returned,
  \* NeuralNetworkPotential: the settings table and the descriptors built
  symfunction_short, descriptor,
  \* per-atom computations dispatched to workers, and their completion order
  futures, done_order,
  \* mask-based angular term of one atom
  total,
  \* RunnerStructureLoader: the open file, the lines consumed, the fields
  \* and the generator of get_data with the items it has yielded
  file, fpos, _data, _ignore_next, gen, yielded,
  \* RunnerStructureDataset
  persist, transform, _cached_structures, accessed, ds_item,
  \* DescriptorScaler
  number_of_warnings, max_number_of_warnings,
  \* outcome of the last operation, and history the claims speak about
  err, last_call, pos0, reg_log, built_cutoff, n_moves

boxVars == <<dx, pbc_out>>
emapVars == <<unique_elements, _elem_to_atomic_num, _elem_to_atom_type,
              _atom_type_to_elem, lookup_out>>
structVars == <<position, atype, r_cutoff, masks, requires_neighbor_update>>
asfVars == <<element, _radial, _angular, result>>
histVars == <<pos0, reg_log, built_cutoff, n_moves>>
potVars == <<symfunction_short, descriptor>>
parVars == <<futures, done_order>>
maskVars == <<total>>
loaderVars == <<file, fpos, _data, _ignore_next, gen, yielded>>
datasetVars == <<persist, transform, _cached_structures, accessed, ds_item>>
scalerVars == <<number_of_warnings, max_number_of_warnings>>
auxVars == <<loaderVars, datasetVars, scalerVars>>
vars == <<dx, pbc_out, unique_elements, _elem_to_atomic_num, _elem_to_atom_type,
          _atom_type_to_elem, lookup_out, lattice, position, atype, r_cutoff,
          masks, requires_neighbor_update, element, _radial, _angular, result,
          returned, symfunction_short, descriptor, futures, done_order, total,
          file, fpos, _data, _ignore_next, gen, yielded,
          persist, transform, _cached_structures, accessed, ds_item,
          number_of_warnings, max_number_of_warnings,
          err, last_call, pos0, reg_log, built_cutoff, n_moves>>

None == <<>>

Some(v) == <<v>>

\* ---------------------------------------------------------------- bounds
\* largest |component| of a difference vector handed to _apply_pbc
MaxDx == 5

\* longest list of elements handed to the ElementMap constructor
MaxElems == 3

\* number of Cartesian axes (lattice is reshaped to 3x3)
NDim == 3

Axes == 1..NDim

Abs(v) == IF v < 0 THEN -v ELSE v

Min(S) == CHOOSE m \in S : \A o \in S : m <= o

\* ---------------------------------------------------------------- Box
\* lattice.diagonal()
Diagonal(lat) == [a \in Axes |-> lat[a][a]]

IsDiagonal(lat) == \A a \in Axes : \A b \in Axes : a # b => lat[a][b] = 0

DiagLattice(l1, l2, l3) == <<<<l1, 0, 0>>, <<0, l2, 0>>, <<0, 0, l3>>>>

\* first torch.where of _apply_pbc : dx > 0.5 * l  ->  dx - l
PbcUpper(v, l) == IF 2 * v > l THEN v - l ELSE v

\* second torch.where of _apply_pbc : dx < -0.5 * l  ->  dx + l
PbcLowerNoop(v, l) == v

PbcLower(v, l) == IF 2 * v < -l THEN v + l ELSE v

_apply_pbc(d, lat) ==
  LET l == Diagonal(lat)
  IN  [a \in Axes |-> PbcLower(PbcUpper(d[a], l[a]), l[a])]

\* lattices the structures and the kernel are given
LatticeSet ==
  { DiagLattice(4, 4, 4), DiagLattice(5, 4, 3), DiagLattice(2, 3, 4),
    <<<<4, 1, 0>>, <<0, 4, 0>>, <<0, 0, 4>>>>,
    <<<<4, 0, 0>>, <<0, 4, 0>>, <<2, 0, 4>>>> }

DxSet == [Axes -> (-MaxDx)..MaxDx]

\* ---------------------------------------------------------------- ElementMap
\* _KNOWN_ELEMENTS_DICT restricted to the symbols the model uses; "Xx" is a
\* symbol outside the table
_KNOWN_ELEMENTS_DICT == [H |-> 1, C |-> 6, O |-> 8]

KnownSymbols == DOMAIN _KNOWN_ELEMENTS_DICT

Symbols == KnownSymbols \cup {"Xx"}

\* sorted(keys, key=num.get): ascending by value
RECURSIVE SortedBy(_, _)
SortedBy(S, key) ==
  IF S = {} THEN <<>>
  ELSE LET m == CHOOSE e \in S : \A o \in S : key[e] <= key[o]
       IN  <<m>> \o SortedBy(S \ {m}, key)

RECURSIVE SortedByDesc(_, _)
SortedByDesc(S, key) ==
  IF S = {} THEN <<>>
  ELSE LET m == CHOOSE e \in S : \A o \in S : key[e] >= key[o]
       IN  <<m>> \o SortedByDesc(S \ {m}, key)

\* {elem: atom_type for atom_type, elem in enumerate(seq, start=1)}
EnumerateFrom1(seq) ==
  [e \in {seq[n] : n \in 1..Len(seq)} |->
     CHOOSE n \in 1..Len(seq) : seq[n] = e]

\* {atom_type: elem for elem, atom_type in d.items()}
InvertDict(d) ==
  [t \in {d[e] : e \in DOMAIN d} |-> CHOOSE e \in DOMAIN d : d[e] = t]

RangeOf(seq) == {seq[n] : n \in 1..Len(seq)}

\* ---- ElementMap operations ------------------------------------------

\* idle values of the variables an operation group does not own
BoxIdle == dx = None /\ pbc_out = None

PotIdle == symfunction_short = <<>> /\ descriptor = None

ParIdle == futures = <<>> /\ done_order = <<>>

MaskIdle == total = None

LoaderIdle ==
  /\ file = <<>> /\ fpos = 0 /\ _data = None /\ _ignore_next = FALSE
  /\ gen = "none" /\ yielded = <<>>

DatasetIdle ==
  /\ persist = FALSE /\ transform = "" /\ _cached_structures = <<>>
  /\ accessed = {} /\ ds_item = None

ScalerIdle == number_of_warnings = 0 /\ max_number_of_warnings = None

AuxIdle == LoaderIdle /\ DatasetIdle /\ ScalerIdle

EmapIdle ==
  /\ unique_elements = {}
  /\ _elem_to_atomic_num = None
  /\ _elem_to_atom_type = None
  /\ _atom_type_to_elem = None
  /\ lookup_out = None

StructIdle ==
  /\ position = None /\ atype = None /\ r_cutoff = None /\ masks = None
  /\ requires_neighbor_update = FALSE

AsfIdle == element = "" /\ _radial = <<>> /\ _angular = <<>> /\ result = None

HistIdle == pos0 = None /\ reg_log = <<>> /\ built_cutoff = None /\ n_moves = 0

\* the three dictionaries create_maps builds over a set of elements
AtomicNumDict(S) == [e \in S |-> _KNOWN_ELEMENTS_DICT[e]]

AtomTypeDictDesc(S) == EnumerateFrom1(SortedByDesc(S, AtomicNumDict(S)))

AtomTypeDict(S) == EnumerateFrom1(SortedBy(S, AtomicNumDict(S)))

\* ElementMap.create_maps; a symbol outside the table raises KeyError in the
\* first comprehension, before any attribute is assigned
create_maps ==
  /\ last_call' = [op |-> "create_maps"]
  /\ IF unique_elements \subseteq KnownSymbols
       THEN /\ _elem_to_atomic_num' = Some(AtomicNumDict(unique_elements))
            /\ _elem_to_atom_type' = Some(AtomTypeDict(unique_elements))
            /\ _atom_type_to_elem' = Some(InvertDict(AtomTypeDict(unique_elements)))
            /\ err' = "none"
       ELSE /\ UNCHANGED <<_elem_to_atomic_num, _elem_to_atom_type, _atom_type_to_elem>>
            /\ err' = "KeyError"
  /\ lookup_out' = None /\ returned' = None
  /\ UNCHANGED <<unique_elements, boxVars, potVars, parVars, maskVars, auxVars, lattice, structVars, asfVars, histVars>>

\* ElementMap.clear_maps
clear_maps ==
  /\ last_call' = [op |-> "clear_maps"]
  /\ unique_elements' = {}
  /\ _elem_to_atomic_num' = None
  /\ _elem_to_atom_type' = None
  /\ _atom_type_to_elem' = None
  /\ lookup_out' = None /\ returned' = None
  /\ err' = "none"
  /\ UNCHANGED <<boxVars, potVars, parVars, maskVars, auxVars, lattice, structVars, asfVars, histVars>>

\* ElementMap.insert
insert(symbol) ==
  /\ last_call' = [op |-> "insert"]
  /\ unique_elements' = unique_elements \cup {symbol}
  /\ lookup_out' = None /\ returned' = None
  /\ err' = "none"
  /\ UNCHANGED <<_elem_to_atomic_num, _elem_to_atom_type, _atom_type_to_elem,
                 boxVars, potVars, parVars, maskVars, auxVars, lattice, structVars, asfVars, histVars>>

\* ElementMap.__init__(elements): clear_maps, then set(elements) and create_maps
ElementMap_init(elements) ==
  /\ last_call' = [op |-> "ElementMap"]
  /\ RangeOf(elements) \subseteq KnownSymbols
  /\ unique_elements' = RangeOf(elements)
  /\ _elem_to_atomic_num' = Some(AtomicNumDict(RangeOf(elements)))
  /\ _elem_to_atom_type' = Some(AtomTypeDict(RangeOf(elements)))
  /\ _atom_type_to_elem' = Some(InvertDict(AtomTypeDict(RangeOf(elements))))
  /\ lookup_out' = None /\ returned' = None
  /\ err' = "none"
  /\ UNCHANGED <<boxVars, potVars, parVars, maskVars, auxVars, lattice, structVars, asfVars, histVars>>

\* d[key] on an attribute that is a dict or None
Subscript(d, key) ==
  IF d = None THEN [err |-> "TypeError", val |-> None]
  ELSE IF key \in DOMAIN d[1] THEN [err |-> "none", val |-> Some(d[1][key])]
  ELSE [err |-> "KeyError", val |-> None]

\* ElementMap.__getitem__ / __call__; item is an int n, a str s, or of another
\* type: [t |-> "int" | "str" | "other", n, s]
ElementMap_getitem(item) ==
  LET r == IF item.t = "int" THEN Subscript(_atom_type_to_elem, item.n)
           ELSE IF item.t = "str" THEN Subscript(_elem_to_atom_type, item.s)
           ELSE [err |-> "TypeError", val |-> None]
  IN  /\ last_call' = [op |-> "getitem", item |-> item]
      /\ lookup_out' = r.val /\ returned' = None
      /\ err' = r.err
      /\ UNCHANGED <<unique_elements, _elem_to_atomic_num, _elem_to_atom_type,
                     _atom_type_to_elem, boxVars, potVars, parVars, maskVars, auxVars, lattice, structVars, asfVars,
                     histVars>>

ElementLists == UNION {[1..n -> KnownSymbols] : n \in 0..MaxElems}

LookupItems ==
  {[t |-> "str", n |-> 0, s |-> s] : s \in Symbols}
    \cup {[t |-> "int", n |-> n, s |-> ""] : n \in 0..(Cardinality(KnownSymbols) + 1)}
    \cup {[t |-> "other", n |-> 0, s |-> ""]}

\* the state after ElementMap() / ElementMap(elements)
InitElem ==
  /\ \/ EmapIdle
     \/ \E elements \in ElementLists :
          /\ unique_elements = RangeOf(elements)
          /\ _elem_to_atomic_num = Some(AtomicNumDict(RangeOf(elements)))
          /\ _elem_to_atom_type = Some(AtomTypeDict(RangeOf(elements)))
          /\ _atom_type_to_elem = Some(InvertDict(AtomTypeDict(RangeOf(elements))))
          /\ lookup_out = None
  /\ BoxIdle /\ PotIdle /\ ParIdle /\ MaskIdle /\ AuxIdle /\ lattice = None /\ StructIdle /\ AsfIdle /\ HistIdle
  /\ err = "none" /\ returned = None /\ last_call = [op |-> "ElementMap"]

NextElem ==
  \/ create_maps
  \/ clear_maps
  \/ \E e \in Symbols : insert(e)
  \/ \E elements \in ElementLists : ElementMap_init(elements)
  \/ \E item \in LookupItems : ElementMap_getitem(item)

SpecElem == InitElem /\ [][NextElem]_vars

\* ---- Box operations -------------------------------------------------

\* Box.apply_pbc(dx) / Box._apply_pbc(dx, lattice): no check of the lattice
\* precedes the use of its diagonal
Box_apply_pbc(d) ==
  /\ pbc_out = None
  /\ last_call' = [op |-> "apply_pbc"]
  /\ dx' = d
  /\ pbc_out' = _apply_pbc(d, lattice) /\ returned' = None
  /\ err' = "none"
  /\ UNCHANGED <<lattice, emapVars, structVars, asfVars, histVars, potVars,
                 parVars, maskVars, auxVars>>

\* the state after Box(lattice): the matrix is stored as given
InitBox ==
  /\ lattice \in LatticeSet
  /\ BoxIdle /\ PotIdle /\ ParIdle /\ MaskIdle /\ AuxIdle /\ EmapIdle /\ StructIdle /\ AsfIdle /\ HistIdle
  /\ err = "none" /\ returned = None /\ last_call = [op |-> "Box"]

NextBox == \E d \in DxSet : Box_apply_pbc(d)

SpecBox == InitBox /\ [][NextBox]_vars

\* ---- Structure and Neighbor ------------------------------------------

\* largest cutoff radius handed to a structure
MaxCutoff == 2

\* position changes (by whole lattice vectors) applied to one structure
MaxMoves == 2

CutoffSet == (-1)..MaxCutoff

\* d <= r for a distance d >= 0 carried as d2 = d*d
LeqDist(d2, r) == r >= 0 /\ d2 <= r * r

\* Structure._calculate_distance, difference part: dx = pos[aid] - x, with the
\* periodic correction when the box has a lattice
CalcDiffNoPbc(pos, aid, lat, j) == [a \in Axes |-> pos[aid][a] - pos[j][a]]

CalcDiff(pos, aid, lat, j) ==
  LET d == [a \in Axes |-> pos[aid][a] - pos[j][a]]
  IN  IF lat # None THEN _apply_pbc(d, lat) ELSE d

\* torch.linalg.vector_norm(dx), squared
Norm2(d) == d[1] * d[1] + d[2] * d[2] + d[3] * d[3]

Dist2(pos, aid, lat, j) == Norm2(CalcDiff(pos, aid, lat, j))

\* _calculate_cutoff_masks_per_atom: (rij <= r_cutoff) & (rij != 0.0)
CutoffMaskNoSelfTest(d2, r) == LeqDist(d2, r)

CutoffMask(d2, r) == LeqDist(d2, r) /\ d2 # 0

\* _calculate_cutoff_masks: the masks of every atom against every atom
CutoffMasks(pos, lat, r) ==
  [i \in 1..Len(pos) |-> [j \in 1..Len(pos) |-> CutoffMask(Dist2(pos, i, lat, j), r)]]

\* truth value of an optional number: None and 0 are false
Truthy(opt) == opt # None /\ opt[1] # 0

\* Structure.set_cutoff_radius -> Structure._init_neighbor, on a structure
\* that has its Neighbor object; Neighbor.set_cutoff_radius stores the radius
SkipsUpdateAlways(cur, r) == Truthy(cur)

SkipsUpdate(cur, r) == Truthy(cur) /\ cur = Some(r)

\* the Neighbor object of the structure after _init_neighbor, as the masks it
\* stores: the structure has one (`if not self.neighbor` is false), so it is
\* kept; a variant makes a new Neighbor on every call
NeighborRenewed(m) == None

NeighborKept(m) == m

Structure_set_cutoff_radius(r) ==
  /\ position # None
  /\ last_call' = [op |-> "set_cutoff_radius", r |-> r, same |-> r_cutoff = Some(r)]
  /\ returned' = None
  /\ IF SkipsUpdate(r_cutoff, r)
       THEN UNCHANGED <<r_cutoff, requires_neighbor_update>>
       ELSE /\ r_cutoff' = Some(r)
            /\ requires_neighbor_update' = TRUE
  /\ masks' = NeighborKept(masks)
  /\ err' = "none"
  /\ UNCHANGED <<position, atype, lattice, boxVars, potVars, parVars, maskVars, auxVars, emapVars, asfVars, histVars>>

\* Structure.update_neighbor -> Neighbor.update(structure): skipped without
\* a cutoff radius, the masks recomputed otherwise (a variant that keeps
\* masks once built stands before it)
NeighborUpdatedOnce ==
  IF r_cutoff = None \/ masks # None THEN masks
  ELSE CutoffMasks(position, lattice, r_cutoff[1])

NeighborUpdatedNever == masks

NeighborUpdated ==
  IF r_cutoff = None THEN masks ELSE CutoffMasks(position, lattice, r_cutoff[1])

Structure_update_neighbor ==
  /\ position # None
  /\ last_call' = [op |-> "update_neighbor"] /\ returned' = None
  /\ masks' = NeighborUpdated
  /\ built_cutoff' = IF r_cutoff = None THEN built_cutoff ELSE Some(r_cutoff)
  /\ err' = "none"
  /\ UNCHANGED <<position, atype, r_cutoff, requires_neighbor_update, lattice,
                 boxVars, potVars, parVars, maskVars, auxVars, emapVars, asfVars, pos0, reg_log, n_moves>>

\* a structure gets new positions (MDSimulator.verlet_integration replaces
\* them); here atom i moves by n lattice vectors along axis a
ReplacePosition(i, a, n) ==
  /\ position # None /\ lattice # None
  /\ n_moves < MaxMoves
  /\ n_moves' = n_moves + 1
  /\ last_call' = [op |-> "replace_position"] /\ returned' = None
  /\ position' = [position EXCEPT ![i][a] = @ + n * lattice[a][a]]
  /\ err' = "none"
  /\ UNCHANGED <<atype, r_cutoff, masks, requires_neighbor_update, lattice,
                 boxVars, potVars, parVars, maskVars, auxVars, emapVars, asfVars, pos0, reg_log, built_cutoff>>

\* the remainder that takes the sign of the dividend (C's fmod)
RemainderTruncated(x, l) == IF x >= 0 THEN x % l ELSE 0 - ((0 - x) % l)

\* x.remainder(length): Python's sign-of-divisor remainder, per axis
Remainder(x, l) == x % l

\* Box.shift_inside_box applied to the positions of the structure
shift_inside_box(pos, lat) ==
  [i \in 1..Len(pos) |-> [a \in Axes |-> Remainder(pos[i][a], lat[a][a])]]

ShiftInsideBox ==
  /\ position # None /\ lattice # None
  /\ last_call' = [op |-> "shift_inside_box"] /\ returned' = None
  /\ position' = shift_inside_box(position, lattice)
  /\ err' = "none"
  /\ UNCHANGED <<atype, r_cutoff, masks, requires_neighbor_update, lattice,
                 boxVars, potVars, parVars, maskVars, auxVars, emapVars, asfVars, histVars>>

\* atom positions the structures are built from (some outside the box)
PosSet == { <<0, 0, 0>>, <<3, 0, 0>>, <<-1, 0, 0>>, <<0, 1, 1>> }

\* lattices of the structures: none, orthogonal, non-orthogonal
StructLattices ==
  { None, DiagLattice(4, 4, 4), DiagLattice(5, 4, 3),
    <<<<4, 1, 0>>, <<0, 4, 0>>, <<0, 0, 4>>>> }

\* elements of the atoms of the structures
StructElements == <<"O", "H", "H">>

\* ElementMap(data["element"]) and _prepare_atype_tensor
StructEmap(elements) ==
  /\ unique_elements = RangeOf(elements)
  /\ _elem_to_atomic_num = Some(AtomicNumDict(RangeOf(elements)))
  /\ _elem_to_atom_type = Some(AtomTypeDict(RangeOf(elements)))
  /\ _atom_type_to_elem = Some(InvertDict(AtomTypeDict(RangeOf(elements))))
  /\ lookup_out = None
  /\ atype = [i \in 1..Len(elements) |-> AtomTypeDict(RangeOf(elements))[elements[i]]]

\* Structure.__init__ casts the given positions to a tensor; the shift into
\* the box is commented out, so the values are kept
_prepare_position(pos, lat) == pos

\* the state after Structure(data, r_cutoff): tensors, box, and a Neighbor
\* with the given cutoff and no masks
InitStructure(elements, pos, lat, rc) ==
  /\ StructEmap(elements)
  /\ position = _prepare_position(pos, lat)
  /\ lattice = lat
  /\ r_cutoff = rc
  /\ masks = None
  /\ requires_neighbor_update = TRUE
  /\ pos0 = pos /\ built_cutoff = None /\ n_moves = 0

\* structures with a neighbor list: cutoff changes and updates
InitNeigh ==
  /\ \E pos \in [1..Len(StructElements) -> PosSet] :
       \E lat \in StructLattices :
         \E rc \in {None} \cup {Some(r) : r \in CutoffSet} :
           InitStructure(StructElements, pos, lat, rc)
  /\ BoxIdle /\ PotIdle /\ ParIdle /\ MaskIdle /\ AuxIdle /\ AsfIdle /\ reg_log = <<>>
  /\ err = "none" /\ returned = None /\ last_call = [op |-> "Structure"]

NextNeigh ==
  \/ \E r \in CutoffSet : Structure_set_cutoff_radius(r)
  \/ Structure_update_neighbor

SpecNeigh == InitNeigh /\ [][NextNeigh]_vars

\* periodic structures whose atoms are moved by lattice vectors
InitMove ==
  /\ \E pos \in [1..Len(StructElements) -> PosSet] :
       \E lat \in StructLattices \ {None} :
         InitStructure(StructElements, pos, lat, None)
  /\ BoxIdle /\ PotIdle /\ ParIdle /\ MaskIdle /\ AuxIdle /\ AsfIdle /\ reg_log = <<>>
  /\ err = "none" /\ returned = None /\ last_call = [op |-> "Structure"]

NextMove ==
  \/ \E i \in 1..Len(position) : \E a \in Axes : \E n \in {-1, 1} :
       ReplacePosition(i, a, n)
  \/ ShiftInsideBox

SpecMove == InitMove /\ [][NextMove]_vars

\* ---- AtomicSymmetryFunction ----------------------------------------

\* registered terms of one descriptor (n_descriptor at most this)
MaxTerms == 2

\* longest list of atom ids handed to one evaluation
MaxAids == 2

\* symmetry-function objects: radial (G1, G2), angular (G3), and an
\* object of neither class
G1 == [kind |-> "radial", fn |-> "G1", r_cutoff |-> 2]

G2 == [kind |-> "radial", fn |-> "G2", r_cutoff |-> 1]

G3 == [kind |-> "angular", fn |-> "G3", r_cutoff |-> 2]

NotASymmetryFunction == [kind |-> "other", fn |-> "", r_cutoff |-> 0]

\* the register calls made: (symmetry_function, neighbor_element1,
\* neighbor_element2)
RegisterCalls ==
  { <<G1, "H", "">>, <<G2, "H", "">>, <<G3, "H", "H">>, <<G3, "H", "O">>,
    <<NotASymmetryFunction, "H", "">> }

n_radial == Len(_radial)

n_angular == Len(_angular)

n_descriptor == n_radial + n_angular

\* AtomicSymmetryFunction.register (torchip) / add (mlp): append to the list
\* of the term's class, TypeError for any other object
AppendFirst(seq, e) == <<e>> \o seq

AppendTerm(seq, e) == Append(seq, e)

register(sf, neighbor_element1, neighbor_element2) ==
  /\ element # ""
  /\ sf.kind = "other" \/ n_descriptor < MaxTerms
  /\ last_call' = [op |-> "register", kind |-> sf.kind]
  /\ IF sf.kind = "radial"
       THEN /\ _radial' = AppendTerm(_radial,
                 [sf |-> sf, central |-> element, e1 |-> neighbor_element1, e2 |-> ""])
            /\ _angular' = _angular
            /\ err' = "none"
       ELSE IF sf.kind = "angular"
       THEN /\ _angular' = AppendTerm(_angular,
                 [sf |-> sf, central |-> element, e1 |-> neighbor_element1,
                  e2 |-> neighbor_element2])
            /\ _radial' = _radial
            /\ err' = "none"
       ELSE /\ UNCHANGED <<_radial, _angular>>
            /\ err' = "TypeError"
  /\ reg_log' = IF sf.kind \in {"radial", "angular"}
                  THEN Append(reg_log, [sf |-> sf, central |-> element,
                         e1 |-> neighbor_element1,
                         e2 |-> IF sf.kind = "angular" THEN neighbor_element2 ELSE ""])
                  ELSE reg_log
  /\ returned' = None
  /\ UNCHANGED <<element, result, lattice, structVars, boxVars, potVars, parVars, maskVars, auxVars, emapVars, pos0,
                 built_cutoff, n_moves>>

\* rows of Neighbor.index up to Neighbor.number: the atoms whose mask is set,
\* in ascending order (nonzero of the mask row)
RECURSIVE IndicesFrom(_, _, _)
IndicesFrom(row, j, n) ==
  IF j > n THEN <<>>
  ELSE (IF row[j] THEN <<j>> ELSE <<>>) \o IndicesFrom(row, j + 1, n)

NeighborIndex(m, aid) == IndicesFrom(m[aid], 1, Len(m[aid]))

\* torch.nonzero(mask)[0] over local indices 1..n
RECURSIVE NonZero(_, _, _)
NonZero(mask, l, n) ==
  IF l > n THEN <<>>
  ELSE (IF mask[l] THEN <<l>> ELSE <<>>) \o NonZero(mask, l + 1, n)

\* a sum of kernel values: the bag of (kernel, arguments) summed over
RECURSIVE SumOver(_)
SumOver(terms) ==
  IF terms = <<>> THEN EmptyBag
  ELSE SetToBag({Head(terms)}) (+) SumOver(Tail(terms))

\* one evaluation of _compute up to the term loops: neighbors of aid, their
\* distances, differences and types
EnvOf(pos, at, ni_, aid, lat) ==
  [ni_ |-> ni_,
   dis_ |-> [l \in 1..Len(ni_) |-> Dist2(pos, aid, lat, ni_[l])],
   diff_ |-> [l \in 1..Len(ni_) |-> CalcDiff(pos, aid, lat, ni_[l])],
   at_ |-> [l \in 1..Len(ni_) |-> at[ni_[l]]]]

Env(pos, at, m, aid, lat) == EnvOf(pos, at, NeighborIndex(m, aid), aid, lat)

\* neighbors with dis_ <= r_cutoff, of any type
RadialSelectAnyType(env, radial, emap) ==
  NonZero([l \in 1..Len(env.ni_) |-> LeqDist(env.dis_[l], radial.sf.r_cutoff)],
          1, Len(env.ni_))

\* radial term: neighbors with dis_ <= r_cutoff and the term's neighbor type
RadialSelect(env, radial, emap) ==
  NonZero([l \in 1..Len(env.ni_) |->
             LeqDist(env.dis_[l], radial.sf.r_cutoff) /\ env.at_[l] = emap[radial.e1]],
          1, Len(env.ni_))

RadialValue(env, radial, emap) ==
  LET sel == RadialSelect(env, radial, emap)
  IN  SumOver([n \in 1..Len(sel) |->
                 [fn |-> radial.sf.fn, args |-> <<env.dis_[sel[n]]>>]])

\* angular term: LOCAL indices of the neighbors of the j and of the k element
AngularSelect(env, angular, at_x) ==
  NonZero([l \in 1..Len(env.ni_) |->
             LeqDist(env.dis_[l], angular.sf.r_cutoff) /\ env.at_[l] = at_x],
          1, Len(env.ni_))

\* k for one j: global index above j's for equal types, different otherwise
KFor(env, sk, j, same) ==
  SelectSeq(sk, LAMBDA k : IF same THEN env.ni_[k] > env.ni_[j]
                           ELSE env.ni_[k] # env.ni_[j])

Inner(u, v) == u[1] * v[1] + u[2] * v[2] + u[3] * v[3]

\* kernel(rij, rik, rjk, cost) for one j and its k's; cost = inner / (rij*rik)
\* is carried as the inner product beside the two distances
AngularTermsOfJ(pos, lat, env, angular, sk, j, same) ==
  LET ks == KFor(env, sk, j, same)
  IN  [n \in 1..Len(ks) |->
         [fn |-> angular.sf.fn,
          args |-> <<env.dis_[j], env.dis_[ks[n]],
                     Dist2(pos, env.ni_[j], lat, env.ni_[ks[n]]),
                     Inner(env.diff_[j], env.diff_[ks[n]])>>]]

RECURSIVE AngularSum(_, _, _, _, _, _, _, _)
AngularSum(pos, lat, env, angular, sj, sk, same, n) ==
  IF n > Len(sj) THEN EmptyBag
  ELSE SumOver(AngularTermsOfJ(pos, lat, env, angular, sk, sj[n], same))
         (+) AngularSum(pos, lat, env, angular, sj, sk, same, n + 1)

AngularValue(pos, lat, env, angular, emap) ==
  LET at_j == emap[angular.e1]
      at_k == emap[angular.e2]
  IN  AngularSum(pos, lat, env, angular, AngularSelect(env, angular, at_j),
                 AngularSelect(env, angular, at_k), at_j = at_k, 1)

\* column of the a-th angular term: enumerate(self._angular, start=n_radial)
AngularColumnFromZero(nr, a) == a

AngularColumn(nr, a) == nr + a

\* the radial loop writes column c, the angular loop adds to its column
RECURSIVE RadialLoop(_, _, _, _, _)
RadialLoop(row, env, radial, emap, c) ==
  IF c > Len(radial) THEN row
  ELSE RadialLoop([row EXCEPT ![c] = RadialValue(env, radial[c], emap)],
                  env, radial, emap, c + 1)

RECURSIVE AngularLoop(_, _, _, _, _, _, _, _)
AngularLoop(row, pos, lat, env, angular, emap, nr, a) ==
  IF a > Len(angular) THEN row
  ELSE AngularLoop([row EXCEPT ![AngularColumn(nr, a)] =
                      @ (+) AngularValue(pos, lat, env, angular[a], emap)],
                   pos, lat, env, angular, emap, nr, a + 1)

\* the two term loops of _compute on the neighbors env of one atom
TermLoops(pos, lat, env, emap, radial, angular) ==
  AngularLoop(RadialLoop([c \in 1..(Len(radial) + Len(angular)) |-> EmptyBag],
                         env, radial, emap, 1),
              pos, lat, env, angular, emap, Len(radial), 1)

\* AtomicSymmetryFunction._compute: the descriptor values of one atom, or
\* the error it raises (central element check, then the neighbor rows are
\* subscripted, which fails on a list that was never built)
_compute(pos, at, m, aid, lat, emap, elem, radial, angular, mismatch) ==
  IF emap[elem] # at[aid] THEN [err |-> mismatch, row |-> None]
  ELSE IF m = None THEN [err |-> "TypeError", row |-> None]
  ELSE [err |-> "none",
        row |-> TermLoops(pos, lat, Env(pos, at, m, aid, lat), emap, radial, angular)]

\* a tensor of descriptor values: its shape and its rows
Tensor2(k, n, rows) == [shape |-> <<k, n>>, rows |-> rows]

\* torch.squeeze: the dimensions of size 1 are dropped
squeeze(t) == [shape |-> SelectSeq(t.shape, LAMBDA d : d # 1), rows |-> t.rows]

\* Structure.select(element): ids of the atoms of that element, ascending
select(at, emap, elem) ==
  NonZero([i \in 1..Len(at) |-> at[i] = emap[elem]], 1, Len(at))

\* aid: one id, a list of ids, or None (every atom of the central element)
AidList(aid) ==
  IF aid.t = "int" THEN <<aid.id>>
  ELSE IF aid.t = "none" THEN select(atype, _elem_to_atom_type[1], element)
  ELSE aid.ids

\* the per-atom computations of one call, on the neighbor masks m
RECURSIVE ComputedFrom(_, _, _, _)
ComputedFrom(aids_, m, mismatch, n) ==
  IF n > Len(aids_) THEN <<>>
  ELSE <<_compute(position, atype, m, aids_[n], lattice, _elem_to_atom_type[1],
                  element, _radial, _angular, mismatch)>>
         \o ComputedFrom(aids_, m, mismatch, n + 1)

Computed(aids_, m, mismatch) == ComputedFrom(aids_, m, mismatch, 1)

\* __call__: the warning "No symmetry function was found" is logged
WarnsNever(n) == FALSE

WarnsNoTerms(n) == n = 0

\* index of the first computation that raises, 0 if none does
FirstError(comp) ==
  IF \A n \in 1..Len(comp) : comp[n].err = "none" THEN 0
  ELSE Min({n \in 1..Len(comp) : comp[n].err # "none"})

\* AtomicSymmetryFunction.__call__ (torchip): update the neighbor list, compute
\* every atom id, stack the rows; an error of one computation ends the call
ASF_call(aid) ==
  \E aids_ \in {AidList(aid)} :
  \E m \in {NeighborUpdated} :
  \E comp \in {Computed(aids_, m, "ValueError")} :
  \E bad \in {FirstError(comp)} :
      /\ element # ""
      /\ last_call' = [op |-> "call", aids |-> aids_,
                       stale |-> built_cutoff # Some(r_cutoff),
                       rebuilt |-> masks # None /\ m # masks,
                       built |-> r_cutoff # None,
                       warned |-> WarnsNoTerms(n_descriptor)]
      /\ masks' = m
      /\ built_cutoff' = IF r_cutoff = None THEN built_cutoff ELSE Some(r_cutoff)
      /\ IF bad = 0
           THEN /\ returned' = Some(Tensor2(Len(aids_), n_descriptor,
                                            [n \in 1..Len(aids_) |-> comp[n].row]))
                /\ err' = "none"
           ELSE /\ returned' = None
                /\ err' = comp[bad].err
      /\ UNCHANGED <<element, _radial, _angular, result, position, atype, r_cutoff,
                     requires_neighbor_update, lattice, boxVars, potVars, parVars, maskVars, auxVars, emapVars, pos0,
                     reg_log, n_moves>>

\* Structure.is_neighbor of the mlp structure: the neighbor list is current
is_neighbor == ~requires_neighbor_update

\* rows of self.result when the call ends: those computed before the first
\* error, zeros after it
Filled(comp, bad) ==
  [n \in 1..Len(comp) |->
     IF bad = 0 \/ n < bad THEN comp[n].row
     ELSE [c \in 1..n_descriptor |-> EmptyBag]]

\* AtomicSymmetryFunction.__call__ (mlp): self.result is allocated with zeros,
\* _compute fills row after row, and the squeezed result is kept and returned
ASF_call_mlp(aid) ==
  \E aids_ \in {AidList(aid)} :
  \E m \in {IF ~is_neighbor THEN NeighborUpdated ELSE masks} :
  \E comp \in {Computed(aids_, m, "AssertionError")} :
  \E bad \in {FirstError(comp)} :
  \E filled \in {Filled(comp, bad)} :
      /\ element # ""
      /\ last_call' = [op |-> "call", aids |-> aids_,
                       stale |-> built_cutoff # Some(r_cutoff),
                       rebuilt |-> masks # None /\ m # masks,
                       built |-> ~is_neighbor /\ r_cutoff # None,
                       warned |-> WarnsNoTerms(n_descriptor)]
      /\ masks' = m
      /\ built_cutoff' = IF r_cutoff = None \/ is_neighbor THEN built_cutoff
                         ELSE Some(r_cutoff)
      /\ IF bad = 0
           THEN /\ result' = Some(squeeze(Tensor2(Len(aids_), n_descriptor, filled)))
                /\ returned' = result'
                /\ err' = "none"
           ELSE /\ result' = Some(Tensor2(Len(aids_), n_descriptor, filled))
                /\ returned' = None
                /\ err' = comp[bad].err
      /\ UNCHANGED <<element, _radial, _angular, position, atype, r_cutoff,
                     requires_neighbor_update, lattice, boxVars, potVars, parVars, maskVars, auxVars, emapVars, pos0,
                     reg_log, n_moves>>

\* structures the descriptors are evaluated on: a water molecule without a
\* lattice, and a periodic cell with an atom across the box boundary
EngineStructures ==
  { [elements |-> <<"O", "H", "H">>, lat |-> None,
     pos |-> <<<<0, 0, 0>>, <<1, 0, 0>>, <<0, 1, 1>>>>],
    [elements |-> <<"H", "O", "O">>, lat |-> DiagLattice(4, 4, 4),
     pos |-> <<<<3, 0, 0>>, <<0, 0, 0>>, <<0, 1, 1>>>>] }

\* cutoff radii the evaluated structures are given
EngineCutoffs == {1, 2}

\* lists of distinct atom ids, in every order
AidLists ==
  {l \in UNION {[1..k -> 1..Len(position)] : k \in 1..MaxAids} :
     \A a, b \in 1..Len(l) : l[a] = l[b] => a = b}

\* what is passed as aid: one id, None, or a list of ids
AidInputs ==
  {[t |-> "int", id |-> i, ids |-> <<>>] : i \in 1..Len(position)}
    \cup {[t |-> "none", id |-> 0, ids |-> <<>>]}
    \cup {[t |-> "list", id |-> 0, ids |-> l] : l \in AidLists}

\* the state after Structure(data, r_cutoff) and AtomicSymmetryFunction(element)
InitAsf ==
  /\ \E st \in EngineStructures :
       \E rc \in {None} \cup {Some(r) : r \in EngineCutoffs} :
         InitStructure(st.elements, st.pos, st.lat, rc)
  /\ element = "O"
  /\ _radial = <<>> /\ _angular = <<>> /\ result = None
  /\ reg_log = <<>>
  /\ BoxIdle /\ PotIdle /\ ParIdle /\ MaskIdle /\ AuxIdle
  /\ err = "none" /\ returned = None /\ last_call = [op |-> "Structure"]

Init == InitAsf

Next ==
  \/ \E c \in RegisterCalls : register(c[1], c[2], c[3])
  \/ \E aid \in AidInputs : ASF_call(aid)
  \/ \E r \in EngineCutoffs : Structure_set_cutoff_radius(r)
  \/ Structure_update_neighbor

Spec == Init /\ [][Next]_vars

NextMlp ==
  \/ \E c \in RegisterCalls : register(c[1], c[2], c[3])
  \/ \E aid \in AidInputs : ASF_call_mlp(aid)
  \/ \E r \in EngineCutoffs : Structure_set_cutoff_radius(r)
  \/ Structure_update_neighbor

SpecMlp == Init /\ [][NextMlp]_vars

\* ---- properties -----------------------------------------------------

\* ---- AtomicSymmetryFunction.__call__ with a TaskClient ----------------------

\* TaskClient.client.gather(futures): the results in the order of the
\* futures; by the order in which the workers finished
GatheredAsFinished(futs, order) == [n \in 1..Len(futs) |-> futs[order[n]].res[1]]

Gathered(futs, order) == [n \in 1..Len(futs) |-> futs[n].res[1]]

\* __call__ up to the submission: the neighbor list is updated, the tensors
\* are scattered and one _compute per atom id is submitted
ASF_call_submit(aid) ==
  \E aids_ \in {AidList(aid)} :
  \E m \in {NeighborUpdated} :
      /\ element # "" /\ futures = <<>> /\ aids_ # <<>>
      /\ last_call' = [op |-> "submit", aids |-> aids_,
                       stale |-> built_cutoff # Some(r_cutoff),
                       rebuilt |-> masks # None /\ m # masks,
                       built |-> r_cutoff # None,
                       warned |-> WarnsNoTerms(n_descriptor)]
      /\ masks' = m
      /\ built_cutoff' = IF r_cutoff = None THEN built_cutoff ELSE Some(r_cutoff)
      /\ futures' = [n \in 1..Len(aids_) |-> [aid |-> aids_[n], res |-> None]]
      /\ done_order' = <<>>
      /\ returned' = None /\ err' = "none"
      /\ UNCHANGED <<element, _radial, _angular, result, position, atype, r_cutoff,
                     requires_neighbor_update, lattice, boxVars, potVars, maskVars, auxVars,
                     emapVars, pos0, reg_log, n_moves>>

\* a worker finishes the _compute of one future, whichever it is
worker_compute(n) ==
  /\ n \in 1..Len(futures) /\ futures[n].res = None
  /\ futures' = [futures EXCEPT ![n].res =
                   Some(_compute(position, atype, masks, futures[n].aid, lattice,
                                 _elem_to_atom_type[1], element, _radial, _angular,
                                 "ValueError"))]
  /\ done_order' = Append(done_order, n)
  /\ UNCHANGED <<boxVars, emapVars, lattice, structVars, asfVars, returned,
                 potVars, maskVars, auxVars, histVars, err, last_call>>

\* every future is done: gather, then torch.stack; the error of a future is
\* raised by gather
ASF_call_gather ==
  \E comp \in {IF \A n \in 1..Len(futures) : futures[n].res # None
                 THEN Gathered(futures, done_order) ELSE <<>>} :
  \E bad \in {FirstError(comp)} :
      /\ futures # <<>> /\ comp # <<>>
      /\ last_call' = [op |-> "call", aids |-> last_call.aids,
                       stale |-> last_call.stale, rebuilt |-> last_call.rebuilt,
                       built |-> last_call.built, warned |-> last_call.warned,
                       finished |-> done_order]
      /\ IF bad = 0
           THEN /\ returned' = Some(Tensor2(Len(comp), n_descriptor,
                                            [n \in 1..Len(comp) |-> comp[n].row]))
                /\ err' = "none"
           ELSE /\ returned' = None
                /\ err' = comp[bad].err
      /\ futures' = <<>> /\ done_order' = <<>>
      /\ UNCHANGED <<boxVars, emapVars, lattice, structVars, asfVars,
                     potVars, maskVars, auxVars, histVars>>

\* structures whose neighbor list covers the cutoff of the terms
InitPar ==
  /\ \E st \in EngineStructures :
       InitStructure(st.elements, st.pos, st.lat, Some(G1.r_cutoff))
  /\ element = "O"
  /\ _radial = <<>> /\ _angular = <<>> /\ result = None
  /\ reg_log = <<>>
  /\ BoxIdle /\ PotIdle /\ ParIdle /\ MaskIdle /\ AuxIdle
  /\ err = "none" /\ returned = None /\ last_call = [op |-> "Structure"]

\* the terms registered before the dispatched evaluations
ParRegisterCalls == { <<G1, "H", "">>, <<G3, "H", "O">> }

\* the caller is blocked in gather while futures are out
NextPar ==
  \/ futures = <<>> /\ \E c \in ParRegisterCalls : register(c[1], c[2], c[3])
  \/ futures = <<>> /\ \E aid \in AidInputs : ASF_call(aid)
  \/ \E aid \in AidInputs : ASF_call_submit(aid)
  \/ \E n \in 1..Len(futures) : worker_compute(n)
  \/ ASF_call_gather

SpecPar == InitPar /\ [][NextPar]_vars

\* ---- failed operations on a structure with a cutoff ------------------------

InitFail ==
  /\ \E st \in EngineStructures : \E r \in EngineCutoffs :
       InitStructure(st.elements, st.pos, st.lat, Some(r))
  /\ element = "O"
  /\ _radial = <<>> /\ _angular = <<>> /\ result = None
  /\ reg_log = <<>>
  /\ BoxIdle /\ PotIdle /\ ParIdle /\ MaskIdle /\ AuxIdle
  /\ err = "none" /\ returned = None /\ last_call = [op |-> "Structure"]

\* registrations, one of them of an object that is no symmetry function
FailRegisterCalls ==
  { <<G1, "H", "">>, <<G3, "H", "O">>, <<NotASymmetryFunction, "H", "">> }

NextFail ==
  \/ \E c \in FailRegisterCalls : register(c[1], c[2], c[3])
  \/ \E aid \in AidInputs : ASF_call(aid)
  \/ \E r \in EngineCutoffs : Structure_set_cutoff_radius(r)

SpecFail == InitFail /\ [][NextFail]_vars

\* ---- ASF.__call__ (mlap) -------------------------------------------------

\* d < r for a distance d >= 0 carried as d2 = d*d
LtDist(d2, r) == r > 0 /\ d2 < r * r

\* neighbors with dis_ < r_cutoff and the given type (LOCAL indices)
SelectMlap(env, sf, at_x) ==
  NonZero([l \in 1..Len(env.ni_) |->
             LtDist(env.dis_[l], sf.r_cutoff) /\ env.at_[l] = at_x],
          1, Len(env.ni_))

RadialValueMlap(env, radial, emap) ==
  LET sel == SelectMlap(env, radial.sf, emap[radial.e1])
  IN  SumOver([n \in 1..Len(sel) |->
                 [fn |-> radial.sf.fn, args |-> <<env.dis_[sel[n]]>>]])

\* ni_k__: the k's of one j, always those of a greater global index
KForMlap(env, sk, j) == SelectSeq(sk, LAMBDA k : env.ni_[k] > env.ni_[j])

\* kernel(rij, rik, rjk, cost) for one j: Rij and Rik are differences of the
\* stored positions, cost their cosine (inner product and the two norms),
\* and rjk is calculate_distance(j, ...) with the LOCAL index j as atom id
AngularTermsOfJMlap(pos, lat, aid, env, angular, sk, j) ==
  LET ks == KForMlap(env, sk, j)
      Rij == CalcDiffNoPbc(pos, aid, lat, env.ni_[j])
  IN  [n \in 1..Len(ks) |->
         LET Rik == CalcDiffNoPbc(pos, aid, lat, env.ni_[ks[n]])
         IN  [fn |-> angular.sf.fn,
              args |-> <<env.dis_[j], env.dis_[ks[n]],
                         Dist2(pos, j, lat, env.ni_[ks[n]]),
                         Inner(Rij, Rik), Norm2(Rij), Norm2(Rik)>>]]

RECURSIVE AngularSumMlap(_, _, _, _, _, _, _, _)
AngularSumMlap(pos, lat, aid, env, angular, sj, sk, n) ==
  IF n > Len(sj) THEN EmptyBag
  ELSE SumOver(AngularTermsOfJMlap(pos, lat, aid, env, angular, sk, sj[n]))
         (+) AngularSumMlap(pos, lat, aid, env, angular, sj, sk, n + 1)

AngularValueMlap(pos, lat, aid, env, angular, emap) ==
  AngularSumMlap(pos, lat, aid, env, angular,
                 SelectMlap(env, angular.sf, emap[angular.e1]),
                 SelectMlap(env, angular.sf, emap[angular.e2]), 1)

\* result: radial terms first, angular terms from column n_radial on
ResultMlap(pos, lat, aid, env, emap, radial, angular) ==
  [c \in 1..(Len(radial) + Len(angular)) |->
     IF c <= Len(radial) THEN RadialValueMlap(env, radial[c], emap)
     ELSE AngularValueMlap(pos, lat, aid, env, angular[c - Len(radial)], emap)]

\* ASF.__call__ (mlap) for one atom id: update the neighbor list if it is
\* not current, check the central element, compute the one row
ASF_call_mlap(aid) ==
  \E m \in {IF ~is_neighbor THEN NeighborUpdated ELSE masks} :
      /\ element # ""
      /\ last_call' = [op |-> "call", aids |-> <<aid>>,
                       stale |-> built_cutoff # Some(r_cutoff),
                       rebuilt |-> masks # None /\ m # masks,
                       built |-> ~is_neighbor /\ r_cutoff # None,
                       warned |-> WarnsNoTerms(n_descriptor)]
      /\ masks' = m
      /\ built_cutoff' = IF r_cutoff = None \/ is_neighbor THEN built_cutoff
                         ELSE Some(r_cutoff)
      /\ IF _elem_to_atom_type[1][element] # atype[aid]
           THEN returned' = None /\ err' = "AssertionError"
         ELSE IF m = None
           THEN returned' = None /\ err' = "TypeError"
         ELSE /\ returned' =
                   Some([shape |-> <<n_descriptor>>,
                         rows |-> <<ResultMlap(position, lattice, aid,
                                               Env(position, atype, m, aid, lattice),
                                               _elem_to_atom_type[1],
                                               _radial, _angular)>>])
              /\ err' = "none"
      /\ UNCHANGED <<element, _radial, _angular, result, position, atype, r_cutoff,
                     requires_neighbor_update, lattice, boxVars, potVars, parVars,
                     maskVars, auxVars, emapVars, pos0, reg_log, n_moves>>

\* the terms added to an mlap descriptor
MlapRegisterCalls ==
  { <<G1, "H", "">>, <<G2, "H", "">>, <<G3, "H", "H">>, <<G3, "O", "H">> }

NextMlap ==
  \/ \E c \in MlapRegisterCalls : register(c[1], c[2], c[3])
  \/ \E aid \in 1..Len(position) : ASF_call_mlap(aid)
  \/ \E r \in EngineCutoffs : Structure_set_cutoff_radius(r)
  \/ Structure_update_neighbor

SpecMlap == Init /\ [][NextMlap]_vars

\* ---- _calculate_angular_asf_per_atom (mlpot) ------------------------------

\* the arrays one atom is evaluated on: diff_i and dist_i against every atom
DiffOf(pos, lat, aid) == [j \in 1..Len(pos) |-> CalcDiff(pos, aid, lat, j)]

DistOf(pos, lat, aid) == [j \in 1..Len(pos) |-> Dist2(pos, aid, lat, j)]

\* mask_cutoff_i & (atype == at_x)
MaskCutoffAndAtype(at, dist_i, rc, at_x) ==
  [j \in 1..Len(at) |-> CutoffMask(dist_i[j], rc) /\ at[j] = at_x]

\* rjk: the distance between Rij and diff_i[k], periodic-corrected
Rjk2(Rij, Rik, lat) ==
  LET d == [a \in Axes |-> Rij[a] - Rik[a]]
  IN  Norm2(IF lat # None THEN _apply_pbc(d, lat) ELSE d)

\* true_op = where(operand == 0, 1, operand), on the squares the model
\* carries (operand2 = (rij * rik)^2)
TrueOpUnguarded(operand2) == operand2

TrueOp(operand2) == IF operand2 = 0 THEN 1 ELSE operand2

\* cost of one j against one k: the quotient inner(Rij, Rik) / true_op where
\* mask_ik holds and 1 elsewhere, then 0 where the operand is zero; the
\* quotient is computed for every k, so its divisor is recorded beside it.
\* A cosine is the pair (numerator, squared denominator).
CostOf(j, k, mask_ik, diff_i, dist_i) ==
  LET operand2 == dist_i[j] * dist_i[k]
      is_zero == operand2 = 0
      true_op2 == TrueOp(operand2)
      quotient == [num |-> Inner(diff_i[j], diff_i[k]), den2 |-> true_op2]
      masked == IF mask_ik[k] THEN quotient ELSE [num |-> 1, den2 |-> 1]
  IN  [divisor2 |-> true_op2,
       cost |-> IF is_zero THEN [num |-> 0, den2 |-> 1] ELSE masked]

\* the cost arrays of the whole scan: one row per scanned j
CostArrays(angular, at, diff_i, dist_i, emap) ==
  LET mask_ik == MaskCutoffAndAtype(at, dist_i, angular.sf.r_cutoff, emap[angular.e2])
  IN  [j \in 1..Len(at) |-> [k \in 1..Len(at) |-> CostOf(j, k, mask_ik, diff_i, dist_i)]]

\* _inner_loop_over_angular_asf_terms: the value of one j, summed over the k
\* with mask_ik & (rjk > 0.0)
RECURSIVE InnerLoopFrom(_, _, _, _, _, _, _)
InnerLoopFrom(fn, j, mask_ik, diff_i, dist_i, lat, k) ==
  IF k > Len(mask_ik) THEN EmptyBag
  ELSE (IF mask_ik[k] /\ Rjk2(diff_i[j], diff_i[k], lat) > 0
          THEN SetToBag({[fn |-> fn,
                          args |-> <<dist_i[j], dist_i[k],
                                     Rjk2(diff_i[j], diff_i[k], lat),
                                     Inner(diff_i[j], diff_i[k])>>]})
          ELSE EmptyBag)
       (+) InnerLoopFrom(fn, j, mask_ik, diff_i, dist_i, lat, k + 1)

\* lax.scan over j: total + value, value being 0 where mask_ij is false
RECURSIVE ScanFrom(_, _, _, _, _, _, _)
ScanFrom(fn, mask_ij, mask_ik, diff_i, dist_i, lat, j) ==
  IF j > Len(mask_ij) THEN EmptyBag
  ELSE (IF mask_ij[j] THEN InnerLoopFrom(fn, j, mask_ik, diff_i, dist_i, lat, 1)
        ELSE EmptyBag)
       (+) ScanFrom(fn, mask_ij, mask_ik, diff_i, dist_i, lat, j + 1)

\* _calculate_angular_asf_per_atom: the scanned sum, and whether it is
\* multiplied by 0.5 (at_j == at_k)
AngularAsfPerAtom(angular, at, diff_i, dist_i, lat, emap) ==
  LET at_j == emap[angular.e1]
      at_k == emap[angular.e2]
  IN  [half |-> at_j = at_k,
       sum |-> ScanFrom(angular.sf.fn,
                        MaskCutoffAndAtype(at, dist_i, angular.sf.r_cutoff, at_j),
                        MaskCutoffAndAtype(at, dist_i, angular.sf.r_cutoff, at_k),
                        diff_i, dist_i, lat, 1)]

\* one evaluation of a registered angular term on the arrays of atom aid
_calculate_angular_asf_per_atom(aid, a) ==
  /\ element # "" /\ position # None
  /\ a \in 1..Len(_angular)
  /\ total' = Some([aid |-> aid, angular |-> _angular[a],
                    value |-> AngularAsfPerAtom(_angular[a], atype,
                                DiffOf(position, lattice, aid),
                                DistOf(position, lattice, aid),
                                lattice, _elem_to_atom_type[1]),
                    cost |-> CostArrays(_angular[a], atype,
                                DiffOf(position, lattice, aid),
                                DistOf(position, lattice, aid),
                                _elem_to_atom_type[1])])
  /\ UNCHANGED <<boxVars, emapVars, lattice, structVars, asfVars, returned,
                 potVars, parVars, auxVars, histVars, err, last_call>>

\* structures both implementations are evaluated on: three and four atoms,
\* with and without two H atoms at one position (directly, or as periodic
\* images of each other)
MaskStructures ==
  { [elements |-> <<"O", "H", "H">>, lat |-> None,
     pos |-> <<<<0, 0, 0>>, <<1, 0, 0>>, <<0, 1, 1>>>>],
    [elements |-> <<"O", "H", "H", "H">>, lat |-> None,
     pos |-> <<<<0, 0, 0>>, <<1, 0, 0>>, <<0, 1, 0>>, <<0, 1, 1>>>>],
    [elements |-> <<"O", "H", "H", "H">>, lat |-> None,
     pos |-> <<<<0, 0, 0>>, <<1, 0, 0>>, <<1, 0, 0>>, <<0, 1, 1>>>>],
    [elements |-> <<"O", "H", "H">>, lat |-> DiagLattice(4, 4, 4),
     pos |-> <<<<0, 0, 0>>, <<1, 0, 0>>, <<1, 0, 4>>>>],
    [elements |-> <<"O", "O", "H", "H">>, lat |-> None,
     pos |-> <<<<0, 0, 0>>, <<0, 0, 0>>, <<1, 0, 0>>, <<1, 1, 0>>>>] }

InitMask ==
  /\ \E st \in MaskStructures : \E r \in EngineCutoffs :
       InitStructure(st.elements, st.pos, st.lat, Some(r))
  /\ element = "O"
  /\ _radial = <<>> /\ _angular = <<>> /\ result = None
  /\ reg_log = <<>>
  /\ BoxIdle /\ PotIdle /\ ParIdle /\ MaskIdle /\ AuxIdle
  /\ err = "none" /\ returned = None /\ last_call = [op |-> "Structure"]

MaskRegisterCalls == { <<G3, "H", "H">>, <<G3, "H", "O">> }

NextMask ==
  \/ \E c \in MaskRegisterCalls : register(c[1], c[2], c[3])
  \/ \E aid \in {x \in AidInputs : x.t = "int"} : ASF_call(aid)
  \/ \E aid \in 1..Len(position) : \E a \in 1..MaxTerms :
       _calculate_angular_asf_per_atom(aid, a)
  \/ \E r \in EngineCutoffs : Structure_set_cutoff_radius(r)

SpecMask == InitMask /\ [][NextMask]_vars

\* ---- NeuralNetworkPotential.init_descriptor ----------------------------

\* rows of the symmetry-function settings table of one potential
MaxRows == 2

\* self.elements of the potential
PotElements == <<"H", "O">>

\* function type codes init_descriptor has a branch for, and the classes
\* they instantiate
TypeCodes == {1, 2, 3, 9}

SymmetryFunctionOf(code) ==
  IF code = 1 THEN [kind |-> "radial", fn |-> "G1", r_cutoff |-> 2]
  ELSE IF code = 2 THEN [kind |-> "radial", fn |-> "G2", r_cutoff |-> 2]
  ELSE IF code = 3 THEN [kind |-> "angular", fn |-> "G3", r_cutoff |-> 2]
  ELSE [kind |-> "angular", fn |-> "G9", r_cutoff |-> 2]

\* descriptor[element] = ASF(element) for every element
EmptyDescriptors ==
  [e \in RangeOf(PotElements) |-> [_radial |-> <<>>, _angular |-> <<>>]]

\* descriptor[cfg[0]].add(symmetry_function, neighbor_element_j[, _k])
AddTerm(desc, cfg) ==
  LET sf == [SymmetryFunctionOf(cfg.type) EXCEPT !.r_cutoff = cfg.r_cutoff]
  IN  IF sf.kind = "radial"
        THEN [desc EXCEPT ![cfg.element]._radial =
                AppendTerm(@, [sf |-> sf, central |-> cfg.element,
                               e1 |-> cfg.e1, e2 |-> ""])]
        ELSE [desc EXCEPT ![cfg.element]._angular =
                AppendTerm(@, [sf |-> sf, central |-> cfg.element,
                               e1 |-> cfg.e1, e2 |-> cfg.e2])]

\* the loop over settings["symfunction_short"]: a row whose type code has
\* no branch falls through the if/elif chain
RowStep(desc, rows, n) ==
  IF rows[n].type \in TypeCodes THEN AddTerm(desc, rows[n]) ELSE desc

RECURSIVE RowLoop(_, _, _)
RowLoop(desc, rows, n) ==
  IF n > Len(rows) THEN desc
  ELSE RowLoop(RowStep(desc, rows, n), rows, n + 1)

init_descriptor ==
  /\ descriptor = None
  /\ descriptor' = Some(RowLoop(EmptyDescriptors, symfunction_short, 1))
  /\ last_call' = [op |-> "init_descriptor"]
  /\ err' = "none" /\ returned' = None
  /\ UNCHANGED <<symfunction_short, boxVars, emapVars, lattice, structVars, asfVars,
                 histVars, parVars, maskVars, auxVars>>

\* rows of the settings table: (element, type, neighbor j, neighbor k,
\* cutoff radius: cfg[5] of a radial row, cfg[7] of an angular one)
TableRows ==
  {[element |-> e, type |-> c, e1 |-> "H", e2 |-> IF c \in {3, 9} THEN "O" ELSE "",
    r_cutoff |-> rc] :
     e \in RangeOf(PotElements), c \in TypeCodes \cup {4}, rc \in EngineCutoffs}

\* the state after the settings file was read
InitPot ==
  /\ symfunction_short \in UNION {[1..k -> TableRows] : k \in 0..MaxRows}
  /\ descriptor = None
  /\ \E st \in EngineStructures : InitStructure(st.elements, st.pos, st.lat, None)
  /\ BoxIdle /\ ParIdle /\ MaskIdle /\ AuxIdle /\ AsfIdle /\ reg_log = <<>>
  /\ err = "none" /\ returned = None /\ last_call = [op |-> "settings.read"]

MinOf(S) == CHOOSE m \in S : \A o \in S : m <= o

\* max([...]) of a non-empty list
MaxOf(S) == CHOOSE m \in S : \A o \in S : o <= m

\* AtomicSymmetryFunction.r_cutoff: the maximum over the radial and angular
\* terms; max() of an empty list raises ValueError (None here)
ASF_r_cutoff(dsc) ==
  LET S == {t.sf.r_cutoff : t \in RangeOf(dsc._radial) \cup RangeOf(dsc._angular)}
  IN  IF S = {} THEN None ELSE Some(MaxOf(S))

\* NeuralNetworkPotential.r_cutoff: the maximum over the descriptors
Potential_r_cutoff(desc) ==
  IF \E e \in DOMAIN desc : ASF_r_cutoff(desc[e]) = None THEN None
  ELSE Some(MaxOf({ASF_r_cutoff(desc[e])[1] : e \in DOMAIN desc}))

\* NeuralNetworkPotentialTrainer.fit: the structures of the dataset are made
\* with r_cutoff = potential.r_cutoff, and their neighbor list is built
fit ==
  \E rc \in {IF descriptor = None THEN None ELSE Potential_r_cutoff(descriptor[1])} :
      /\ last_call.op = "init_descriptor"
      /\ last_call' = [op |-> "fit"]
      /\ IF rc = None
           THEN /\ err' = "ValueError"
                /\ UNCHANGED <<r_cutoff, masks, built_cutoff>>
           ELSE /\ err' = "none"
                /\ r_cutoff' = rc
                /\ masks' = CutoffMasks(position, lattice, rc[1])
                /\ built_cutoff' = rc
      /\ returned' = None
      /\ UNCHANGED <<potVars, boxVars, emapVars, lattice, position, atype,
                     requires_neighbor_update, asfVars, pos0, reg_log, n_moves,
                     parVars, maskVars, auxVars>>

NextPot == init_descriptor \/ fit

SpecPot == InitPot /\ [][NextPot]_vars

\* ---- properties ----------------------------------------------------------

\* periodic images n*L considered when looking for the closest replica
MaxImage == 3

\* C2: for a diagonal lattice with L[a] > 0 and |dx[a]| <= L[a] on every axis,
\* _apply_pbc returns dx[a]-L[a] if dx[a] > L[a]/2, dx[a]+L[a] if
\* dx[a] < -L[a]/2, dx[a] otherwise, and that value is the smallest in
\* magnitude among dx[a]+n*L[a], so its magnitude is at most L[a]/2.
C2_MinimumImage ==
  (/\ last_call.op = "apply_pbc"
   /\ IsDiagonal(lattice)
   /\ \A a \in Axes : lattice[a][a] > 0 /\ Abs(dx[a]) <= lattice[a][a])
  => \A a \in Axes :
       LET L == lattice[a][a]
           v == dx[a]
           o == pbc_out[a]
       IN  /\ o = (IF 2 * v > L THEN v - L ELSE IF 2 * v < -L THEN v + L ELSE v)
           /\ \A n \in (-MaxImage)..MaxImage : Abs(o) <= Abs(v + n * L)
           /\ 2 * Abs(o) <= L

C2_Witness ==
  /\ last_call.op = "apply_pbc"
  /\ lattice = DiagLattice(5, 4, 3)
  /\ dx = <<3, -4, 1>>
  /\ pbc_out = <<-2, 0, 1>>

\* C3: a minimum-image correction requested with a lattice that has a
\* non-zero off-diagonal entry fails with a configuration error and returns
\* nothing.
C3_NonDiagonalRejected ==
  (last_call.op = "apply_pbc" /\ ~IsDiagonal(lattice))
  => (err = "ConfigurationError" /\ pbc_out = None)

\* C5: after the maps are created over K distinct known symbols the atom
\* types are exactly 1..K, the two maps are mutually inverse, and the types
\* are ordered as the atomic numbers are.
C5_TypesByAtomicNumber ==
  (last_call.op \in {"ElementMap", "create_maps"} /\ err = "none"
     /\ _elem_to_atom_type # None)
  => LET e2t == _elem_to_atom_type[1]
         t2e == _atom_type_to_elem[1]
         K == Cardinality(unique_elements)
     IN  /\ DOMAIN e2t = unique_elements
         /\ {e2t[e] : e \in unique_elements} = 1..K
         /\ DOMAIN t2e = 1..K
         /\ \A e \in unique_elements : t2e[e2t[e]] = e
         /\ \A t \in 1..K : e2t[t2e[t]] = t
         /\ \A a \in unique_elements : \A b \in unique_elements :
              (e2t[a] < e2t[b]) <=> (_KNOWN_ELEMENTS_DICT[a] < _KNOWN_ELEMENTS_DICT[b])

C5_Witness ==
  /\ last_call.op = "create_maps" /\ err = "none"
  /\ unique_elements = {"O", "H"}
  /\ _elem_to_atom_type = Some([H |-> 1, O |-> 2])
  /\ _atom_type_to_elem[1][2] = "O"

\* C6: the lookup of a symbol or an atom type outside the registered set
\* fails with a lookup error and returns no value, in every state of the map.
C6_UnknownLookupIsLookupError ==
  (/\ last_call.op = "getitem"
   /\ \/ last_call.item.t = "str" /\ last_call.item.s \notin unique_elements
      \/ last_call.item.t = "int"
           /\ last_call.item.n \notin 1..Cardinality(unique_elements))
  => (err = "KeyError" /\ lookup_out = None)

\* C1: after the neighbor list is built with cutoff r, j is recorded as a
\* neighbor of i exactly when 0 < dist(i,j) <= r for the periodic-corrected
\* distance; an atom is never its own neighbor.
C1_NeighborIffWithinCutoff ==
  (last_call.op = "update_neighbor" /\ r_cutoff # None)
  => /\ masks # None
     /\ \A i \in 1..Len(position) :
          /\ ~masks[i][i]
          /\ \A j \in 1..Len(position) :
               masks[i][j] <=>
                 (/\ Dist2(position, i, lattice, j) > 0
                  /\ r_cutoff[1] >= 0
                  /\ Dist2(position, i, lattice, j) <= r_cutoff[1] * r_cutoff[1])

C1_Witness ==
  /\ last_call.op = "update_neighbor"
  /\ r_cutoff = Some(1)
  /\ lattice = DiagLattice(4, 4, 4)
  /\ position = <<<<0, 0, 0>>, <<3, 0, 0>>, <<-1, 0, 0>>>>
  /\ masks[1][2] /\ masks[1][3] /\ ~masks[2][3] /\ ~masks[1][1]

\* all atoms inside the box [0, L) on every axis
InsideBox(pos, lat) ==
  \A i \in 1..Len(pos) : \A a \in Axes : 0 <= pos[i][a] /\ pos[i][a] < lat[a][a]

\* squared distance to the closest periodic replica, by enumeration
ClosestImage2(pos, i, lat, j) ==
  LET sq(a) == Min({ (pos[i][a] - pos[j][a] + n * lat[a][a])
                       * (pos[i][a] - pos[j][a] + n * lat[a][a]) :
                     n \in (-MaxImage)..MaxImage })
  IN  sq(1) + sq(2) + sq(3)

\* C4 as stated: for a diagonal lattice, moving atoms by whole lattice
\* vectors leaves every computed pair distance unchanged.
C4_PeriodicInvariance ==
  IsDiagonal(lattice)
  => \A i \in 1..Len(position) : \A j \in 1..Len(position) :
       Dist2(position, i, lattice, j) = Dist2(pos0, i, lattice, j)

\* C4 amended: for a diagonal lattice, whenever all atoms lie inside the box
\* (as after shift_inside_box) every computed pair distance is the distance
\* to the closest periodic replica, which no move by whole lattice vectors
\* changes; so are the neighbor masks for every cutoff.
C4_InvarianceInsideBox ==
  (IsDiagonal(lattice) /\ InsideBox(position, lattice))
  => /\ \A i \in 1..Len(position) : \A j \in 1..Len(position) :
          Dist2(position, i, lattice, j) = ClosestImage2(pos0, i, lattice, j)
     /\ \A r \in CutoffSet :
          CutoffMasks(position, lattice, r) =
            [i \in 1..Len(position) |-> [j \in 1..Len(position) |->
               LET d2 == ClosestImage2(pos0, i, lattice, j)
               IN  d2 > 0 /\ r >= 0 /\ d2 <= r * r]]

C4_Witness ==
  /\ last_call.op = "shift_inside_box"
  /\ n_moves >= 1
  /\ IsDiagonal(lattice) /\ InsideBox(position, lattice)
  /\ position # pos0
  /\ \E i \in 1..Len(position) : \E j \in 1..Len(position) :
       Dist2(position, i, lattice, j) # Norm2(CalcDiffNoPbc(position, i, lattice, j))

\* the registered terms of one class, in the order of their registration
TermsOfKind(log, kind) == SelectSeq(log, LAMBDA t : t.sf.kind = kind)

\* every order in which the neighbors of one atom can be listed
Reorderings(ni_) ==
  IF ni_ = <<>> THEN {<<>>}
  ELSE {[l \in 1..Len(ni_) |-> ni_[p[l]]] : p \in Permutations(1..Len(ni_))}

\* C7: after any interleaved sequence of register calls, an evaluation
\* returns one row per atom id of length n_radial + n_angular, column c holds
\* the value of the c-th registered radial term and column n_radial + a the
\* value of the a-th registered angular term, and the row is the same for
\* every order of the neighbor list.
C7_DescriptorLayout ==
  (last_call.op = "call" /\ err = "none")
  => LET t == returned[1]
         rads == TermsOfKind(reg_log, "radial")
         angs == TermsOfKind(reg_log, "angular")
         emap == _elem_to_atom_type[1]
     IN  /\ n_radial = Len(rads) /\ n_angular = Len(angs)
         /\ t.shape = <<Len(last_call.aids), Len(rads) + Len(angs)>>
         /\ \A n \in 1..Len(last_call.aids) :
              LET aid == last_call.aids[n]
                  ni_ == NeighborIndex(masks, aid)
                  env == EnvOf(position, atype, ni_, aid, lattice)
              IN  /\ Len(t.rows[n]) = Len(rads) + Len(angs)
                  /\ \A c \in 1..Len(rads) :
                       t.rows[n][c] = RadialValue(env, rads[c], emap)
                  /\ \A a \in 1..Len(angs) :
                       t.rows[n][Len(rads) + a] =
                         AngularValue(position, lattice, env, angs[a], emap)
                  /\ \A o \in Reorderings(ni_) :
                       TermLoops(position, lattice,
                                 EnvOf(position, atype, o, aid, lattice),
                                 emap, _radial, _angular) = t.rows[n]

\* an angular term registered before a radial one, evaluated on an atom with
\* two neighbors: both columns hold a non-zero value
C7_Witness ==
  /\ last_call.op = "call" /\ err = "none"
  /\ Len(reg_log) = 2
  /\ reg_log[1].sf.kind = "angular" /\ reg_log[2].sf.kind = "radial"
  /\ Len(NeighborIndex(masks, last_call.aids[1])) >= 2
  /\ returned[1].rows[1][1] # EmptyBag
  /\ returned[1].rows[1][2] # EmptyBag
  /\ returned[1].rows[1][1] # returned[1].rows[1][2]

\* C8: register with an object that is neither a radial nor an angular
\* symmetry function raises TypeError and leaves both term lists unchanged;
\* with a radial (angular) term it appends exactly one entry to the radial
\* (angular) list and leaves the other list unchanged.
C8_RegisterAppendsOrRejects ==
  [][ last_call'.op = "register"
      => IF last_call'.kind = "radial"
           THEN /\ Len(_radial') = Len(_radial) + 1
                /\ SubSeq(_radial', 1, Len(_radial)) = _radial
                /\ _radial'[Len(_radial')].sf.kind = "radial"
                /\ _angular' = _angular
                /\ err' = "none"
         ELSE IF last_call'.kind = "angular"
           THEN /\ Len(_angular') = Len(_angular) + 1
                /\ SubSeq(_angular', 1, Len(_angular)) = _angular
                /\ _angular'[Len(_angular')].sf.kind = "angular"
                /\ _radial' = _radial
                /\ err' = "none"
         ELSE /\ err' = "TypeError"
              /\ _radial' = _radial /\ _angular' = _angular
              /\ reg_log' = reg_log ]_vars

\* a rejected object after terms of both classes were registered
C8_Witness ==
  /\ last_call.op = "register" /\ last_call.kind = "other"
  /\ err = "TypeError"
  /\ n_radial = 1 /\ n_angular = 1

\* some row of a tensor holds a computed, non-zero descriptor value
HoldsFeatureRow(t) ==
  \E n \in 1..Len(t.rows) : \E c \in 1..Len(t.rows[n]) : t.rows[n][c] # EmptyBag

\* C9: an evaluation of a list of atom ids that fails on an atom of another
\* element than the central one returns nothing and leaves no feature row
\* of any requested id in the result attribute.
C9_MismatchLeavesNoRow ==
  (last_call.op = "call" /\ err = "AssertionError")
  => /\ returned = None
     /\ result = None \/ ~HoldsFeatureRow(result[1])

\* C10: an evaluation of a structure whose neighbor list was never built, or
\* was built with another cutoff, rebuilds the list first: afterwards the
\* list is the one of the current cutoff and the returned rows are computed
\* from it; on a structure without any cutoff the evaluation fails and
\* returns nothing.
C10_EvaluateOnCurrentNeighbors ==
  (last_call.op = "call")
  => IF r_cutoff = None
       THEN err # "none" /\ returned = None /\ masks = None
       ELSE /\ masks = CutoffMasks(position, lattice, r_cutoff[1])
            /\ built_cutoff = Some(r_cutoff)
            /\ err = "none"
               => \A n \in 1..Len(last_call.aids) :
                    returned[1].rows[n] =
                      TermLoops(position, lattice,
                                Env(position, atype,
                                    CutoffMasks(position, lattice, r_cutoff[1]),
                                    last_call.aids[n], lattice),
                                _elem_to_atom_type[1], _radial, _angular)

\* an evaluation that found a list built with another cutoff, rebuilt it
\* to different neighbors and returned a non-zero row
C10_Witness ==
  /\ last_call.op = "call" /\ err = "none"
  /\ last_call.stale /\ last_call.rebuilt
  /\ HoldsFeatureRow(returned[1])

\* C11: an evaluation of a structure whose neighbor list was built with the
\* current cutoff (positions unchanged) does not run the neighbor
\* computation again, and the stored masks are the same before and after.
C11_ReusesCurrentList ==
  [][ (last_call'.op = "call" /\ ~last_call'.stale)
      => (~last_call'.built /\ masks' = masks) ]_vars

\* C12: set_cutoff_radius(r) with r different from the current cutoff
\* stores r, marks the neighbor list as requiring an update and leaves the
\* stored masks as they were; it computes no neighbors.
C12_SetCutoffMarksStale ==
  [][ (last_call'.op = "set_cutoff_radius" /\ r_cutoff # Some(last_call'.r))
      => /\ r_cutoff' = Some(last_call'.r)
         /\ requires_neighbor_update'
         /\ masks' = masks /\ built_cutoff' = built_cutoff
         /\ err' = "none" ]_vars

\* a cutoff changed after a build: the masks kept are those of the old one
C12_Witness ==
  /\ last_call.op = "set_cutoff_radius"
  /\ masks # None /\ built_cutoff # None
  /\ built_cutoff # Some(r_cutoff)
  /\ masks # CutoffMasks(position, lattice, r_cutoff[1])
  /\ requires_neighbor_update

\* C13: refreshing the neighbor list of a structure that never had a
\* cutoff radius fails with an error instead of returning normally without
\* neighbor data.
C13_NoCutoffUpdateFails ==
  (last_call.op = "update_neighbor" /\ r_cutoff = None)
  => (err # "none")

\* C14: a cutoff radius r <= 0 is rejected with a configuration error, at
\* construction and in set_cutoff_radius, and is never stored.
C14_NonPositiveCutoffRejected ==
  /\ (last_call.op = "set_cutoff_radius" /\ last_call.r <= 0)
       => (err = "ConfigurationError")
  /\ r_cutoff = None \/ r_cutoff[1] > 0

\* C20: an evaluation with no registered term of atoms of the central
\* element, on a structure with a cutoff, does not fail: the warning is
\* logged and one row of zero columns is returned per atom.
C20_NoTermsReturnsEmptyRows ==
  (/\ last_call.op = "call"
   /\ n_descriptor = 0
   /\ r_cutoff # None
   /\ \A n \in 1..Len(last_call.aids) :
        atype[last_call.aids[n]] = _elem_to_atom_type[1][element])
  => /\ err = "none"
     /\ last_call.warned
     /\ returned # None
     /\ returned[1].shape = <<Len(last_call.aids), 0>>
     /\ \A n \in 1..Len(last_call.aids) : returned[1].rows[n] = <<>>

C20_Witness ==
  /\ last_call.op = "call" /\ err = "none"
  /\ reg_log = <<>> /\ n_descriptor = 0
  /\ Len(last_call.aids) = 2
  /\ last_call.warned
  /\ returned[1].shape = <<2, 0>>

\* the rows of one element and one class of term, in table order
RowsOf(rows, e, kind) ==
  SelectSeq(rows, LAMBDA cfg : cfg.element = e /\ cfg.type \in TypeCodes
                                 /\ SymmetryFunctionOf(cfg.type).kind = kind)

\* C15: init_descriptor registers one term per row of type 1, 2, 3 or 9 on
\* the descriptor of the row's element, in table order, and rejects a table
\* with a row of any other type with a configuration error, so that the
\* number of registered terms equals the number of rows.
C15_EveryRowRegistersOrFails ==
  (last_call.op = "init_descriptor")
  => IF \A n \in 1..Len(symfunction_short) : symfunction_short[n].type \in TypeCodes
       THEN /\ err = "none"
            /\ \A e \in RangeOf(PotElements) :
                 /\ [n \in 1..Len(descriptor[1][e]._radial) |->
                       descriptor[1][e]._radial[n].sf.fn]
                    = [n \in 1..Len(RowsOf(symfunction_short, e, "radial")) |->
                         SymmetryFunctionOf(RowsOf(symfunction_short, e, "radial")[n].type).fn]
                 /\ [n \in 1..Len(descriptor[1][e]._angular) |->
                       descriptor[1][e]._angular[n].sf.fn]
                    = [n \in 1..Len(RowsOf(symfunction_short, e, "angular")) |->
                         SymmetryFunctionOf(RowsOf(symfunction_short, e, "angular")[n].type).fn]
       ELSE err = "ConfigurationError"

\* the atoms recorded as neighbors of atom i that lie within a term's cutoff
\* (boundary included) and are of element e
WithinOf(i, sf, e) ==
  {j \in 1..Len(position) :
     /\ masks[i][j]
     /\ Dist2(position, i, lattice, j) <= sf.r_cutoff * sf.r_cutoff
     /\ atype[j] = _elem_to_atom_type[1][e]}

\* the sum of kernel(dist(i, j)) over a set of atoms j
RadialSumOver(i, sf, S) ==
  LET arg(j) == [fn |-> sf.fn, args |-> <<Dist2(position, i, lattice, j)>>]
  IN  [a \in {arg(j) : j \in S} |-> Cardinality({j \in S : arg(j) = a})]

\* C16: the column of every registered radial term holds the sum of
\* kernel(dist(i, j)) over exactly the neighbors j of the central atom i with
\* dist(i, j) <= rc (boundary included) and of the term's neighbor element;
\* with no such neighbor it is 0.
C16_RadialSelection ==
  (last_call.op = "call" /\ err = "none")
  => \A n \in 1..Len(last_call.aids) : \A c \in 1..n_radial :
       returned[1].rows[n][c] =
         RadialSumOver(last_call.aids[n], _radial[c].sf,
                       WithinOf(last_call.aids[n], _radial[c].sf, _radial[c].e1))

\* a call on an atom with a neighbor exactly at a radial term's cutoff, a
\* neighbor beyond it and a neighbor of another element; and a call in which
\* a radial term has no matching neighbor
C16_Witness ==
  /\ last_call.op = "call" /\ err = "none"
  /\ \E c \in 1..n_radial :
       LET i == last_call.aids[1]
           rc == _radial[c].sf.r_cutoff
           S == WithinOf(i, _radial[c].sf, _radial[c].e1)
       IN  /\ \E j \in S : Dist2(position, i, lattice, j) = rc * rc
           /\ \E j \in 1..Len(position) :
                masks[i][j] /\ Dist2(position, i, lattice, j) > rc * rc
           /\ \E j \in 1..Len(position) :
                masks[i][j] /\ atype[j] # _elem_to_atom_type[1][_radial[c].e1]
           /\ returned[1].rows[1][c] # EmptyBag
  /\ \E n \in 1..Len(last_call.aids) : \E c \in 1..n_radial :
       /\ WithinOf(last_call.aids[n], _radial[c].sf, _radial[c].e1) = {}
       /\ returned[1].rows[n][c] = EmptyBag

\* the pairs (j, k) of an angular term: unordered pairs of distinct atoms
\* for equal elements (k of the greater index), every pair otherwise
PairsOf(i, t) ==
  IF t.e1 = t.e2
    THEN {p \in WithinOf(i, t.sf, t.e1) \X WithinOf(i, t.sf, t.e1) : p[1] < p[2]}
    ELSE WithinOf(i, t.sf, t.e1) \X WithinOf(i, t.sf, t.e2)

\* what identifies the pair in a kernel value: the distances rij and rik
PairDistances(i, P) ==
  LET arg(p) == <<Dist2(position, i, lattice, p[1]), Dist2(position, i, lattice, p[2])>>
  IN  [a \in {arg(p) : p \in P} |-> Cardinality({p \in P : arg(p) = a})]

\* the distances (rij, rik) of the kernel values summed in one column
SummedDistances(col) ==
  LET arg(v) == <<v.args[1], v.args[2]>>
  IN  [a \in {arg(v) : v \in DOMAIN col} |->
         LET S == {v \in DOMAIN col : arg(v) = a}
             RECURSIVE Total(_)
             Total(T) == IF T = {} THEN 0
                         ELSE LET v == CHOOSE x \in T : TRUE
                              IN  col[v] + Total(T \ {v})
         IN  Total(S)]

\* C17: in the column of every registered angular term each pair (j, k) of
\* neighbors within the term's cutoff and of the term's elements contributes
\* exactly once: unordered pairs of distinct atoms (k > j) for equal
\* elements, every pair (j, k) for different elements, never k = j.
C17_AngularPairsOnce ==
  (last_call.op = "call" /\ err = "none")
  => \A n \in 1..Len(last_call.aids) : \A a \in 1..n_angular :
       /\ BagCardinality(returned[1].rows[n][n_radial + a])
            = Cardinality(PairsOf(last_call.aids[n], _angular[a]))
       /\ SummedDistances(returned[1].rows[n][n_radial + a])
            = PairDistances(last_call.aids[n], PairsOf(last_call.aids[n], _angular[a]))

\* a kernel value with its distances rij and rik in ascending order: the
\* angular kernels have the same value for (rij, rik) and (rik, rij)
SymmetricArgs(v) ==
  IF v.args[1] <= v.args[2] THEN v
  ELSE [v EXCEPT !.args = <<v.args[2], v.args[1], v.args[3], v.args[4]>>]

Symmetrised(col) ==
  LET RECURSIVE Total(_)
      Total(T) == IF T = {} THEN 0
                  ELSE LET v == CHOOSE x \in T : TRUE
                       IN  col[v] + Total(T \ {v})
  IN  [a \in {SymmetricArgs(v) : v \in DOMAIN col} |->
         Total({v \in DOMAIN col : SymmetricArgs(v) = a})]

\* an index-based call and a mask-based evaluation of one angular term with
\* equal neighbor elements on one atom, the neighbor list covering the
\* term's cutoff
SameTermEvaluated(n, a) ==
  /\ total # None /\ last_call.op = "call" /\ err = "none"
  /\ n \in 1..Len(last_call.aids) /\ a \in 1..n_angular
  /\ last_call.aids[n] = total[1].aid
  /\ _angular[a] = total[1].angular
  /\ _angular[a].e1 = _angular[a].e2
  /\ r_cutoff[1] >= _angular[a].sf.r_cutoff

\* C18: for an angular term with elemJ = elemK the value accumulated with
\* the k > j convention (index-based) equals 0.5 times the sum over all
\* ordered pairs j != k (mask-based), for every structure and central atom,
\* two distinct neighbors at one position included.
C18_HalfOfOrderedPairs ==
  \A n \in 1..MaxAids : \A a \in 1..MaxTerms :
    SameTermEvaluated(n, a)
    => /\ total[1].value.half
       /\ LET indexed == Symmetrised(returned[1].rows[n][n_radial + a])
          IN  Symmetrised(total[1].value.sum) = indexed (+) indexed

\* the same, on atoms none of whose neighbors share a position
C18_HalfOfOrderedPairsApart ==
  \A n \in 1..MaxAids : \A a \in 1..MaxTerms :
    (/\ SameTermEvaluated(n, a)
     /\ \A j, k \in 1..Len(position) :
          (j # k /\ masks[total[1].aid][j] /\ masks[total[1].aid][k])
          => Dist2(position, j, lattice, k) > 0)
    => /\ total[1].value.half
       /\ LET indexed == Symmetrised(returned[1].rows[n][n_radial + a])
          IN  Symmetrised(total[1].value.sum) = indexed (+) indexed

\* the row returned by an evaluation of atom i alone, on the present state
Alone(i) ==
  Computed(<<i>>, NeighborUpdated, "ValueError")[1].row

\* C19: a successful evaluation of a list of atom ids returns one row per
\* id, in the order of the ids, and row n is the row that evaluating the
\* n-th id alone returns, on the serial path and when the computations are
\* done by workers that finish in any order.
C19_RowsInRequestOrder ==
  (last_call.op = "call" /\ err = "none")
  => /\ returned[1].shape = <<Len(last_call.aids), n_descriptor>>
     /\ Len(returned[1].rows) = Len(last_call.aids)
     /\ \A n \in 1..Len(last_call.aids) :
          returned[1].rows[n] = Alone(last_call.aids[n])

\* a dispatched evaluation of two atoms with different rows whose second
\* computation finished first
C19_Witness ==
  /\ last_call.op = "call" /\ err = "none"
  /\ "finished" \in DOMAIN last_call
  /\ Len(last_call.aids) >= 2
  /\ last_call.finished[1] # 1
  /\ returned[1].rows[1] # returned[1].rows[2]

\* the pairs (j, k) whose kernel value enters the mask-based sum of atom i
Contributes(i, t, j, k) ==
  LET d == DistOf(position, lattice, i)
      at_x(e) == _elem_to_atom_type[1][e]
  IN  /\ CutoffMask(d[j], t.sf.r_cutoff) /\ atype[j] = at_x(t.e1)
      /\ CutoffMask(d[k], t.sf.r_cutoff) /\ atype[k] = at_x(t.e2)

MatrixOf(aids_) ==
  Tensor2(Len(aids_), n_descriptor,
          [n \in 1..Len(aids_) |->
             TermLoops(position, lattice,
                       EnvOf(position, atype,
                             IndicesFrom(CutoffMasks(position, lattice, r_cutoff[1])[aids_[n]],
                                         1, Len(position)),
                             aids_[n], lattice),
                       _elem_to_atom_type[1], _radial, _angular)])

\* C22: an evaluation that fails on an element mismatch changes neither the
\* structure's cutoff nor the registered terms and leaves the neighbor data
\* of a correct build for that cutoff; a register that fails with a type
\* error changes nothing of the structure or of the terms; and the
\* evaluation that follows a failed operation returns the feature matrix
\* determined by the positions, the cutoff and the terms alone.
C22_FailureKeepsNeighborList ==
  [][/\ (last_call'.op = "call" /\ err' \in {"ValueError", "AssertionError"})
        => /\ r_cutoff' = r_cutoff /\ position' = position /\ atype' = atype
           /\ _radial' = _radial /\ _angular' = _angular
           /\ returned' = None
           /\ r_cutoff # None
              => /\ masks' = CutoffMasks(position, lattice, r_cutoff[1])
                 /\ built_cutoff' = Some(r_cutoff)
     /\ (last_call'.op = "register" /\ err' = "TypeError")
        => /\ UNCHANGED <<position, atype, r_cutoff, masks, requires_neighbor_update,
                          built_cutoff, _radial, _angular>>
     /\ (err \in {"ValueError", "AssertionError", "TypeError"}
         /\ last_call'.op = "call" /\ err' = "none")
        => /\ returned' # None
           /\ returned'[1].rows = MatrixOf(last_call'.aids).rows
    ]_vars

\* an evaluation of two ids that failed on the second, after the first was
\* computed, on a structure with a cutoff and registered terms
C22_Witness ==
  /\ last_call.op = "call" /\ err = "ValueError"
  /\ Len(last_call.aids) = 2
  /\ atype[last_call.aids[1]] = _elem_to_atom_type[1][element]
  /\ n_descriptor > 0
  /\ masks # None /\ built_cutoff = Some(r_cutoff)

\* C27: set_cutoff_radius(r) with r equal to the structure's current cutoff
\* changes nothing: the cutoff, the stored neighbor data and the
\* requires_neighbor_update flag are as before, and a list built with that
\* cutoff is still the list of the current cutoff.
C27_SameCutoffIsNoOp ==
  [][ (last_call'.op = "set_cutoff_radius" /\ r_cutoff = Some(last_call'.r))
      => /\ UNCHANGED <<r_cutoff, masks, requires_neighbor_update, built_cutoff,
                        position, atype, lattice>>
         /\ err' = "none"
         /\ built_cutoff = Some(r_cutoff) => built_cutoff' = Some(r_cutoff') ]_vars

\* the cutoff set again on a structure whose list was built with it
C27_Witness ==
  /\ last_call.op = "set_cutoff_radius" /\ last_call.same
  /\ masks # None /\ built_cutoff = Some(r_cutoff)
  /\ masks = CutoffMasks(position, lattice, r_cutoff[1])

\* the symbols for which the lookup emap[symbol] succeeds
Resolvable ==
  {e \in Symbols : Subscript(_elem_to_atom_type, e).err = "none"}

\* C30: in every state reached by construction, insert, create_maps and
\* clear_maps the symbols whose lookup succeeds are exactly the registered
\* set unique_elements, and their types are 1..K in the order of the atomic
\* numbers.
C30_LookupCoversRegisteredSet ==
  /\ Resolvable = unique_elements
  /\ \A e \in Resolvable :
       _elem_to_atom_type[1][e] =
         Cardinality({f \in unique_elements : _KNOWN_ELEMENTS_DICT[f] <= _KNOWN_ELEMENTS_DICT[e]})

\* every term registered in the descriptors of the potential
AllTerms ==
  UNION {RangeOf(descriptor[1][e]._radial) \cup RangeOf(descriptor[1][e]._angular) :
           e \in DOMAIN descriptor[1]}

\* C29: the cutoff each descriptor reports is the largest of its terms, the
\* potential's is the largest over the descriptors, and on a structure
\* prepared for training the neighbor-list cutoff is >= the cutoff of every
\* registered term, so that the neighbors recorded within a term's cutoff
\* are all the atoms within it.
C29_ListCoversEveryTerm ==
  (last_call.op = "fit" /\ err = "none")
  => /\ \A t \in AllTerms : t.sf.r_cutoff <= r_cutoff[1]
     /\ \E t \in AllTerms : t.sf.r_cutoff = r_cutoff[1]
     /\ \A e \in DOMAIN descriptor[1] :
          /\ ASF_r_cutoff(descriptor[1][e]) # None
          /\ ASF_r_cutoff(descriptor[1][e])[1] <= r_cutoff[1]
     /\ \A t \in AllTerms : \A i, j \in 1..Len(position) :
          (Dist2(position, i, lattice, j) # 0
             /\ Dist2(position, i, lattice, j) <= t.sf.r_cutoff * t.sf.r_cutoff)
          => masks[i][j]

\* a potential whose two descriptors have terms of different cutoffs, on a
\* structure with atoms farther apart than the smaller cutoff
C29_Witness ==
  /\ last_call.op = "fit" /\ err = "none"
  /\ \E t, u \in AllTerms : t.sf.r_cutoff < u.sf.r_cutoff /\ t.central # u.central
  /\ \E t \in AllTerms : \E i, j \in 1..Len(position) :
       masks[i][j] /\ Dist2(position, i, lattice, j) > t.sf.r_cutoff * t.sf.r_cutoff

MaxSnapshots == 2

\* everything but the loader, the dataset and the scaler
coreVars == <<boxVars, emapVars, lattice, structVars, asfVars, returned, potVars,
              parVars, maskVars, histVars>>

CoreIdle ==
  /\ BoxIdle /\ EmapIdle /\ lattice = None /\ StructIdle /\ AsfIdle /\ returned = None
  /\ PotIdle /\ ParIdle /\ MaskIdle /\ HistIdle

\* tokenized lines of a structure file: keyword and tokens
AtomLine(x, y, z, el) ==
  [keyword |-> "atom",
   tokens |-> <<x, y, z, el, IF el = "H" THEN 1 ELSE -2, x + y, 0 - x, y, z>>]

LatticeLines(l) ==
  << [keyword |-> "lattice", tokens |-> <<l, 0, 0>>],
     [keyword |-> "lattice", tokens |-> <<0, l, 0>>],
     [keyword |-> "lattice", tokens |-> <<0, 0, l>>] >>

EnergyLine(v) == [keyword |-> "energy", tokens |-> <<v>>]

ChargeLine(v) == [keyword |-> "charge", tokens |-> <<v>>]

BeginLine == [keyword |-> "begin", tokens |-> <<>>]

EndLine == [keyword |-> "end", tokens |-> <<>>]

\* snapshots of the files read: periodic cells with atoms inside the box,
\* at negative coordinates and beyond the box
Snapshots ==
  { <<BeginLine>> \o LatticeLines(4)
      \o <<AtomLine(0, 0, 0, "O"), AtomLine(-1, 0, 0, "H"), AtomLine(5, 1, 0, "H"),
           EnergyLine(-3), ChargeLine(0), EndLine>>,
    <<BeginLine>> \o LatticeLines(3)
      \o <<AtomLine(0, 0, 0, "H"), AtomLine(4, 0, 0, "H"), EnergyLine(-1), EndLine>>,
    <<BeginLine>> \o LatticeLines(5)
      \o <<AtomLine(3, 0, 0, "O"), EnergyLine(-2), ChargeLine(1), EndLine>> }

RECURSIVE Flatten(_)
Flatten(ss) == IF ss = <<>> THEN <<>> ELSE Head(ss) \o Flatten(Tail(ss))

\* files of whole snapshots
WholeFiles == {Flatten(ss) : ss \in UNION {[1..k -> Snapshots] : k \in 0..MaxSnapshots}}

\* files of whole snapshots, some followed by a snapshot cut before its end
LoaderFiles ==
  WholeFiles \cup {f \o SubSeq(sn, 1, Len(sn) - 1) : f \in WholeFiles, sn \in Snapshots}

\* defaultdict(list)
EmptyData ==
  [position |-> <<>>, element |-> <<>>, charge |-> <<>>, energy |-> <<>>,
   force |-> <<>>, lattice |-> <<>>, total_energy |-> <<>>, total_charge |-> <<>>]

\* read: the branch taken for one line
AppendLine(d, line) ==
  IF line.keyword = "atom"
    THEN [d EXCEPT !.position = Append(@, SubSeq(line.tokens, 1, 3)),
                   !.element = Append(@, line.tokens[4]),
                   !.charge = Append(@, line.tokens[5]),
                   !.energy = Append(@, line.tokens[6]),
                   !.force = Append(@, SubSeq(line.tokens, 7, 9))]
  ELSE IF line.keyword = "lattice"
    THEN [d EXCEPT !.lattice = Append(@, SubSeq(line.tokens, 1, 3))]
  ELSE IF line.keyword = "energy"
    THEN [d EXCEPT !.total_energy = Append(@, line.tokens[1])]
  ELSE IF line.keyword = "charge"
    THEN [d EXCEPT !.total_charge = Append(@, line.tokens[1])]
  ELSE d

\* read: lines are consumed up to an "end" line (True) or the end of the
\* file (False), the fields of the lines read are collected in _data
RECURSIVE ReadLoop(_, _, _)
ReadLoop(f, p, d) ==
  IF p >= Len(f) THEN [ok |-> FALSE, fpos |-> Len(f), data |-> d]
  ELSE IF f[p + 1].keyword = "end" THEN [ok |-> TRUE, fpos |-> p + 1, data |-> d]
  ELSE ReadLoop(f, p + 1, AppendLine(d, f[p + 1]))

read(f, p) == ReadLoop(f, p, EmptyData)

\* an ignore that consumes nothing
IgnoreNothing(f, p) == [ok |-> p < Len(f), fpos |-> p]

\* ignore: lines are consumed up to an "end" line (True) or the end of the
\* file (False)
RECURSIVE ignore(_, _)
ignore(f, p) ==
  IF p >= Len(f) THEN [ok |-> FALSE, fpos |-> Len(f)]
  ELSE IF f[p + 1].keyword = "end" THEN [ok |-> TRUE, fpos |-> p + 1]
  ELSE ignore(f, p + 1)

\* RunnerStructureLoader.ignore_next
ignore_next ==
  /\ gen \in {"created", "suspended", "closed"}
  /\ _ignore_next' = TRUE
  /\ last_call' = [op |-> "ignore_next"]
  /\ err' = "none"
  /\ UNCHANGED <<file, fpos, _data, gen, yielded, datasetVars, scalerVars, coreVars>>

\* one advance of the generator returned by get_data: the condition of the
\* while loop calls read or ignore; on True the loop body yields self._data,
\* on False the generator cleans up and ends
get_data_next ==
  /\ gen \in {"created", "suspended"}
  /\ IF ~_ignore_next
       THEN \E res \in {read(file, fpos)} :
              /\ fpos' = res.fpos
              /\ last_call' = [op |-> "next", ignored |-> FALSE, ok |-> res.ok]
              /\ IF res.ok
                   THEN /\ _data' = Some(res.data)
                        /\ yielded' = Append(yielded, Some(res.data))
                        /\ gen' = "suspended"
                        /\ UNCHANGED _ignore_next
                   ELSE /\ _data' = None /\ _ignore_next' = FALSE
                        /\ gen' = "closed"
                        /\ UNCHANGED yielded
       ELSE \E res \in {ignore(file, fpos)} :
              /\ fpos' = res.fpos
              /\ last_call' = [op |-> "next", ignored |-> TRUE, ok |-> res.ok]
              /\ _data' = None
              /\ _ignore_next' = FALSE
              /\ IF res.ok
                   THEN /\ yielded' = Append(yielded, None)
                        /\ gen' = "suspended"
                   ELSE /\ gen' = "closed"
                        /\ UNCHANGED yielded
  /\ err' = "none"
  /\ UNCHANGED <<file, datasetVars, scalerVars, coreVars>>

InitLoader ==
  /\ file \in LoaderFiles
  /\ fpos = 0 /\ _data = None /\ _ignore_next = FALSE
  /\ gen = "created" /\ yielded = <<>>
  /\ DatasetIdle /\ ScalerIdle /\ CoreIdle
  /\ err = "none" /\ last_call = [op |-> "get_data"]

NextLoader == ignore_next \/ get_data_next

SpecLoader == InitLoader /\ [][NextLoader]_vars

\* the lines of the n-th snapshot of a file (n = 1, 2, ...): those after the
\* (n-1)-th "end" line up to the n-th
Ends(f) == {q \in 1..Len(f) : f[q].keyword = "end"}

NthEnd(f, n) ==
  IF n = 0 THEN 0
  ELSE CHOOSE q \in Ends(f) : Cardinality({o \in Ends(f) : o <= q}) = n

SnapshotLines(f, n) == SubSeq(f, NthEnd(f, n - 1) + 1, NthEnd(f, n))

TokensOf(lines, kw) ==
  LET sel == SelectSeq(lines, LAMBDA l : l.keyword = kw)
  IN  [q \in 1..Len(sel) |-> sel[q].tokens]

\* the data dictionary of a snapshot, field by field
DataOf(lines) ==
  [position |-> [q \in 1..Len(TokensOf(lines, "atom")) |->
                   SubSeq(TokensOf(lines, "atom")[q], 1, 3)],
   element |-> [q \in 1..Len(TokensOf(lines, "atom")) |-> TokensOf(lines, "atom")[q][4]],
   charge |-> [q \in 1..Len(TokensOf(lines, "atom")) |-> TokensOf(lines, "atom")[q][5]],
   energy |-> [q \in 1..Len(TokensOf(lines, "atom")) |-> TokensOf(lines, "atom")[q][6]],
   force |-> [q \in 1..Len(TokensOf(lines, "atom")) |->
                SubSeq(TokensOf(lines, "atom")[q], 7, 9)],
   lattice |-> TokensOf(lines, "lattice"),
   total_energy |-> [q \in 1..Len(TokensOf(lines, "energy")) |->
                       TokensOf(lines, "energy")[q][1]],
   total_charge |-> [q \in 1..Len(TokensOf(lines, "charge")) |->
                       TokensOf(lines, "charge")[q][1]]]

\* C26: when ignore_next() was called before the generator advances, the
\* advance skips the next snapshot without yielding an item for it (None in
\* particular is never yielded) and leaves the ignore flag false; an advance
\* without ignore_next yields the data dictionary of the next snapshot, so
\* that the items yielded are the dictionaries of the snapshots read, in
\* file order.
C26_IgnoreNextSkipsSilently ==
  [][(last_call'.op = "next" /\ last_call'.ok)
       => /\ ~_ignore_next'
          /\ IF last_call'.ignored
               THEN yielded' = yielded
               ELSE yielded' = Append(yielded,
                      Some(DataOf(SnapshotLines(file, Cardinality(Ends(SubSeq(file, 1, fpos'))))))
                    )
          /\ \A n \in 1..Len(yielded') : yielded'[n] # None]_vars

\* ------------------------------------------------------ DescriptorScaler
\* largest maximum number of warnings set
MaxWarnings == 2

\* self.min and self.max of a fitted scaler, per descriptor dimension
FittedMin == <<0, 0>>

FittedMax == <<2, 1>>

\* descriptor values handed to the scaler
ScalerArrays == [1..Len(FittedMin) -> -1..3]

\* jnp.any(jnp.logical_or(array > self.max, self.min > array))
AnyOutOfRange(array) ==
  \E d \in 1..Len(array) : array[d] > FittedMax[d] \/ FittedMin[d] > array[d]

\* _check_warnings: the count after the check
Counted(array) ==
  IF max_number_of_warnings = None THEN number_of_warnings
  ELSE number_of_warnings + (IF AnyOutOfRange(array) THEN 1 ELSE 0)

\* DescriptorScaler.__call__(array, warnings): the check of the warnings; the
\* transformed values it returns do not depend on the counters
DescriptorScaler_call(array, warnings) ==
  /\ last_call.op \in {"DescriptorScaler", "scaler", "set_max_number_of_warnings"}
  /\ number_of_warnings <= MaxWarnings
  /\ number_of_warnings' = IF warnings THEN Counted(array) ELSE number_of_warnings
  /\ last_call' =
       [op |-> "scaler", array |-> array, warnings |-> warnings,
        outside |-> AnyOutOfRange(array),
        logged |-> /\ warnings /\ max_number_of_warnings # None
                   /\ Counted(array) >= max_number_of_warnings[1]]
  /\ err' = "none"
  /\ UNCHANGED <<max_number_of_warnings, loaderVars, datasetVars, coreVars>>

\* DescriptorScaler.set_max_number_of_warnings(number), as called by
\* NeuralNetworkPotential.set_extrapolation_warnings(threshold) (None
\* disables the warnings)
set_max_number_of_warnings(number) ==
  /\ last_call.op \in {"DescriptorScaler", "scaler", "set_max_number_of_warnings"}
  /\ max_number_of_warnings' = number
  /\ number_of_warnings' = 0
  /\ last_call' = [op |-> "set_max_number_of_warnings"]
  /\ err' = "none"
  /\ UNCHANGED <<loaderVars, datasetVars, coreVars>>

InitScaler ==
  /\ number_of_warnings = 0 /\ max_number_of_warnings = None
  /\ LoaderIdle /\ DatasetIdle /\ CoreIdle
  /\ err = "none" /\ last_call = [op |-> "DescriptorScaler"]

NextScaler ==
  \/ \E array \in ScalerArrays : \E warnings \in BOOLEAN :
       DescriptorScaler_call(array, warnings)
  \/ \E number \in {None} \cup {Some(n) : n \in 0..MaxWarnings} :
       set_max_number_of_warnings(number)

SpecScaler == InitScaler /\ [][NextScaler]_vars

\* C28: with a maximum number N set, a call with warnings enabled adds 1 to
\* number_of_warnings when a value is outside the fitted range and 0
\* otherwise, and raises an error when the count exceeds N; with no maximum
\* the count does not change; set_max_number_of_warnings resets it to 0.
C28_WarningsCountedAndRaised ==
  [][/\ (last_call'.op = "scaler" /\ last_call'.warnings)
          => IF max_number_of_warnings = None
               THEN number_of_warnings' = number_of_warnings
               ELSE /\ number_of_warnings' = number_of_warnings
                         + (IF last_call'.outside THEN 1 ELSE 0)
                    /\ (number_of_warnings' > max_number_of_warnings[1])
                         => err' # "none"
     /\ (last_call'.op = "set_max_number_of_warnings") => number_of_warnings' = 0]_vars

\* ------------------------------------------------ RunnerStructureDataset
\* len(dataset): the number of snapshots the loader reads from the file
RECURSIVE CountSnapshots(_, _)
CountSnapshots(f, p) ==
  IF read(f, p).ok THEN 1 + CountSnapshots(f, read(f, p).fpos) ELSE 0

Dataset_len(f) == CountSnapshots(f, 0)

\* the place in the file after n snapshots were ignored
RECURSIVE SkipTo(_, _)
SkipTo(f, n) == IF n = 0 THEN 0 ELSE ignore(f, SkipTo(f, n - 1)).fpos

\* the data dictionary of snapshot index (1, 2, ...) of the file
ReadSnapshot(f, index) == read(f, SkipTo(f, index - 1)).data

\* Structure(data) of the dataset: the atoms are shifted inside the box, the
\* elements are mapped to atom types, the other attributes are kept
ToStructure(data) ==
  [type |-> "Structure",
   position |-> shift_inside_box(data.position, data.lattice),
   atype |-> [q \in 1..Len(data.element) |->
                AtomTypeDict(RangeOf(data.element))[data.element[q]]],
   element |-> data.element, lattice |-> data.lattice,
   charge |-> data.charge, energy |-> data.energy, force |-> data.force,
   total_energy |-> data.total_energy, total_charge |-> data.total_charge]

\* transform(data): ToStructure by default, or the caller's function
\* (lambda x: x in the tests)
Transformed(tr, data) ==
  IF tr = "identity" THEN [type |-> "dict", data |-> data] ELSE ToStructure(data)

\* a cache that stores every item
CacheStoreAlways(cache, keep, index, it) == (index :> it) @@ cache

\* the cache after an access: a persistent dataset keeps the item under its
\* index
CacheStore(cache, keep, index, it) ==
  IF keep THEN (index :> it) @@ cache ELSE cache

\* dataset[index]: the cached item of a persistent dataset, or the snapshot
\* read from the file and transformed
Dataset_getitem(index) ==
  /\ transform # ""
  /\ index \in 1..Dataset_len(file)
  /\ \E hit \in {persist /\ index \in DOMAIN _cached_structures} :
       \E it \in {IF hit THEN _cached_structures[index]
                  ELSE Transformed(transform, ReadSnapshot(file, index))} :
         /\ _cached_structures' = CacheStore(_cached_structures, persist, index, it)
         /\ ds_item' = Some(it)
         /\ last_call' = [op |-> "getitem", index |-> index, hit |-> hit]
  /\ accessed' = accessed \cup {index}
  /\ err' = "none"
  /\ UNCHANGED <<persist, transform, loaderVars, scalerVars, coreVars>>

\* RunnerStructureDataset(filename, persist, transform)
InitDataset ==
  /\ file \in WholeFiles
  /\ fpos = 0 /\ _data = None /\ _ignore_next = FALSE /\ gen = "none" /\ yielded = <<>>
  /\ persist \in BOOLEAN
  /\ transform \in {"ToStructure", "identity"}
  /\ _cached_structures = <<>> /\ accessed = {} /\ ds_item = None
  /\ ScalerIdle /\ CoreIdle
  /\ err = "none" /\ last_call = [op |-> "RunnerStructureDataset"]

NextDataset == \E index \in 1..MaxSnapshots + 1 : Dataset_getitem(index)

SpecDataset == InitDataset /\ [][NextDataset]_vars

\* C23: a persistent dataset holds one cached structure per distinct index
\* accessed, however often an index is accessed; a dataset that is not
\* persistent holds none.
C23_CachePerDistinctIndex ==
  (transform # "")
  => IF persist
       THEN /\ DOMAIN _cached_structures = accessed
            /\ Cardinality(DOMAIN _cached_structures) = Cardinality(accessed)
       ELSE DOMAIN _cached_structures = {}

\* an index accessed again after two distinct indices were accessed
C23_Witness ==
  /\ persist /\ last_call.op = "getitem" /\ last_call.hit
  /\ Cardinality(accessed) = 2
  /\ Cardinality(DOMAIN _cached_structures) = 2

====
